---- MODULE Spec2Model ----
(***************************************************************************)
(* Seat inventory and booking of the airlines API.                         *)
(*                                                                         *)
(* The database is modelled as committed table contents (flight_seats,     *)
(* tickets) plus the InnoDB row locks on flight_seats rows.  Every request *)
(* is a process that walks through the awaits of its handler.  bookSeat    *)
(* and releaseSeat open their OWN pooled connection and transaction, so    *)
(* their commit is a step of its own, independent of the transaction of    *)
(* the createTicket / updateTicket / deleteTicket that called them.        *)
(*                                                                         *)
(* A seat code `${row}${letter}` is the pair <<row, letter index>>.        *)
(***************************************************************************)
EXTENDS Integers, Sequences, FiniteSets, TLC

\* ---------------------------------------------------------------- bounds
NumProcs == 2
MaxRequests == 3
Capacity == 10

Procs == 1..NumProcs

\* ------------------------------------------------------- static database
Flights == {1, 2}
\* the flight the seat requests of the main specification are about
MainFlight == 1
Classes == {"first", "business", "economy", "woman_only"}

\* aircraft row of the flights: model name and capacity
AircraftModel == "A320"
\* flights.status values the booking handler distinguishes
Statuses == {"scheduled", "canceled", "arrived"}

\* users table: user_id -> gender column (VARCHAR(10), nullable)
NULL == "NULL"
Users == {1, 2, 3, 4, 5}
UnknownUser == 9
UserGender == (1 :> "Female") @@ (2 :> "male") @@ (3 :> NULL) @@ (4 :> "") @@ (5 :> "female")

\* String.prototype.toLowerCase on the gender strings that occur
ToLowerCase(g) ==
  CASE g = "Female" -> "female"
    [] g = "FEMALE" -> "female"
    [] g = "female" -> "female"
    [] g = "Male"   -> "male"
    [] OTHER        -> g

ValidateWomanOnlySeatNoLower(gender) ==
  /\ gender # NULL
  /\ gender # ""
  /\ gender = "female"

\* gender && gender.toLowerCase() === 'female'
validateWomanOnlySeat(gender) ==
  /\ gender # NULL
  /\ gender # ""
  /\ ToLowerCase(gender) = "female"

\* ------------------------------------------------------- sequence helpers
Range(s) == {s[i] : i \in 1..Len(s)}

\* Array.prototype.includes
Includes(s, x) == x \in Range(s)

\* Array.prototype.indexOf (1-based; 0 when absent, the code's -1)
IndexOf(s, x) ==
  IF x \in Range(s) THEN CHOOSE i \in 1..Len(s) : s[i] = x /\ \A j \in 1..(i-1) : s[j] # x
  ELSE 0

\* Array.prototype.splice(i, 1)
Splice(s, i) == [k \in 1..(Len(s)-1) |-> IF k < i THEN s[k] ELSE s[k+1]]

Occurrences(s, x) == Cardinality({i \in 1..Len(s) : s[i] = x})

\* comparator of the sort in releaseSeat: row number first, then the code
SeatLess(a, b) == IF a[1] # b[1] THEN a[1] < b[1] ELSE a[2] < b[2]

RECURSIVE InsertSorted(_, _)
InsertSorted(s, x) ==
  IF s = <<>> THEN <<x>>
  ELSE IF SeatLess(x, Head(s)) THEN <<x>> \o s
  ELSE <<Head(s)>> \o InsertSorted(Tail(s), x)

SortSeatsSkipped(s) == s

\* Array.prototype.sort with the comparator above (stable insertion sort)
RECURSIVE SortSeats(_)
SortSeats(s) ==
  IF s = <<>> THEN <<>>
  ELSE InsertSorted(SortSeats(SubSeq(s, 1, Len(s)-1)), s[Len(s)])

\* --------------------------------------------------------- layout generator
CeilDiv(a, b) == (a + b - 1) \div b

\* seatsPerRow chosen by generateSeatLayouts from the model name
SeatsPerRow(model) ==
  CASE model \in {"A330", "777", "787"} -> 8
    [] model \in {"CRJ", "E190", "E175"} -> 4
    [] OTHER -> 6

\* seatLetters of generateSeatLayouts
SeatLetters == <<"A", "B", "C", "D", "E", "F", "G", "H">>

\* the decimal digits of a row number, as the template literal writes them
RECURSIVE RowDigits(_)
RowDigits(n) == IF n < 10 THEN <<n>> ELSE RowDigits(n \div 10) \o <<n % 10>>

\* `${row}${letter}`: the characters of the code of seat s
SeatCode(s) == RowDigits(s[1]) \o <<SeatLetters[s[2]]>>

\* percentages (in hundredths) chosen by calculateSeatDistribution
ClassPercent(model) ==
  CASE model \in {"A320", "737"} -> [first |-> 8, business |-> 22, woman_only |-> 10]
    [] model \in {"A330", "777"} -> [first |-> 10, business |-> 25, woman_only |-> 5]
    [] model \in {"CRJ", "E190"} -> [first |-> 5, business |-> 15, woman_only |-> 5]
    [] OTHER -> [first |-> 5, business |-> 15, woman_only |-> 10]

\* economy taken from its own percentage instead of the remainder
calculateSeatDistributionEconomyPercent(model, totalCapacity) ==
  LET p == ClassPercent(model)
      f == (totalCapacity * p.first) \div 100
      b == (totalCapacity * p.business) \div 100
      w == (totalCapacity * p.woman_only) \div 100
      e == (totalCapacity * (100 - (p.first + p.business + p.woman_only))) \div 100
  IN  [first |-> f, business |-> b, economy |-> e, woman_only |-> w]

calculateSeatDistribution(model, totalCapacity) ==
  LET p == ClassPercent(model)
      f == (totalCapacity * p.first) \div 100
      b == (totalCapacity * p.business) \div 100
      w == (totalCapacity * p.woman_only) \div 100
  IN  [first |-> f, business |-> b, economy |-> totalCapacity - (f + b + w), woman_only |-> w]

\* row-major generation, cut off once maxSeats codes were pushed; the cut-off
\* test runs after a push, so a started loop yields at least one code
generateSeatsForClass(startRow, endRow, perRow, maxSeats) ==
  LET all == [k \in 1..((endRow - startRow + 1) * perRow) |->
                <<startRow + ((k - 1) \div perRow), ((k - 1) % perRow) + 1>>]
  IN  IF endRow < startRow THEN <<>>
      ELSE IF maxSeats < 1 THEN SubSeq(all, 1, 1)
      ELSE SubSeq(all, 1, IF maxSeats < Len(all) THEN maxSeats ELSE Len(all))

\* the business rows start on the last row of first
generateSeatLayoutsSharedRow(d, model) ==
  LET n  == SeatsPerRow(model)
      fr == CeilDiv(d.first, n)
      br == CeilDiv(d.business, n)
      wr == CeilDiv(d.woman_only, n)
      er == CeilDiv(d.economy, n)
  IN  [first      |-> generateSeatsForClass(1, fr, n, d.first),
       business   |-> generateSeatsForClass(fr, fr + br, n, d.business),
       woman_only |-> generateSeatsForClass(fr + br + 1, fr + br + wr, n, d.woman_only),
       economy    |-> generateSeatsForClass(fr + br + wr + 1, fr + br + wr + er, n, d.economy)]

generateSeatLayouts(d, model) ==
  LET n  == SeatsPerRow(model)
      fr == CeilDiv(d.first, n)
      br == CeilDiv(d.business, n)
      wr == CeilDiv(d.woman_only, n)
      er == CeilDiv(d.economy, n)
  IN  [first      |-> generateSeatsForClass(1, fr, n, d.first),
       business   |-> generateSeatsForClass(fr + 1, fr + br, n, d.business),
       woman_only |-> generateSeatsForClass(fr + br + 1, fr + br + wr, n, d.woman_only),
       economy    |-> generateSeatsForClass(fr + br + wr + 1, fr + br + wr + er, n, d.economy)]

\* The arguments <<a, n, d>> at which the double a * (n / d) lies below the
\* integer a*n/d: the quotient is rounded to a double, then the product is.
\* The list is complete for a <= 200 with n/d one of 1/2, 1/4, 3/4, 1/10,
\* 3/10, 6/10, 7/10, 29/100, 35/100, 58/100, for a <= d <= 50 with n < d, and
\* for d = 208 with a one of 4, 200 and n <= 200; at no such argument does the double lie above an integer that the exact
\* product is below.
RoundedBelow ==
  {<<50, 58, 100>>, <<90, 7, 10>>, <<100, 29, 100>>, <<100, 58, 100>>, <<170, 7, 10>>,
   <<180, 7, 10>>, <<180, 35, 100>>, <<200, 29, 100>>, <<200, 58, 100>>,
   <<49, 1, 49>>, <<49, 2, 49>>, <<47, 3, 47>>, <<49, 4, 49>>, <<47, 6, 47>>, <<49, 8, 49>>,
   <<47, 12, 47>>, <<23, 13, 23>>, <<45, 13, 45>>, <<46, 13, 46>>, <<22, 15, 22>>,
   <<26, 15, 26>>, <<44, 15, 44>>, <<49, 16, 49>>, <<43, 23, 43>>, <<47, 24, 47>>,
   <<45, 26, 45>>, <<23, 26, 46>>, <<46, 26, 46>>, <<49, 27, 49>>, <<50, 29, 50>>,
   <<22, 30, 44>>, <<44, 30, 44>>, <<39, 31, 39>>, <<43, 31, 43>>, <<47, 31, 47>>,
   <<49, 32, 49>>}

\* Math.floor(a * (n / d)) in doubles
FloorOfProduct(a, n, d) ==
  IF <<a, n, d>> \in RoundedBelow THEN ((a * n) \div d) - 1 ELSE (a * n) \div d

\* A configuration value is a rational [num, den]; a class may be absent.
Absent == [num |-> 0, den |-> 0]
ConfiguredCount(v, totalCapacity) ==
  IF v = Absent THEN 0
  ELSE IF v.num < v.den THEN FloorOfProduct(totalCapacity, v.num, v.den)
  ELSE v.num \div v.den

\* the seat counts generateCustomSeatLayouts hands to generateSeatLayouts
CustomSeatDistribution(configuration, totalCapacity) ==
  LET raw == [c \in Classes |-> ConfiguredCount(configuration[c], totalCapacity)]
      totalConfigured == raw["first"] + raw["business"] + raw["economy"] + raw["woman_only"]
  IN  IF totalConfigured > totalCapacity
      THEN [c \in Classes |-> FloorOfProduct(raw[c], totalCapacity, totalConfigured)]
      ELSE raw

generateCustomSeatLayouts(configuration, model, totalCapacity) ==
  generateSeatLayouts(CustomSeatDistribution(configuration, totalCapacity), model)


\* ---------------------------------------------------------------- pricing
\* NaN: the product of base_price with an undefined column
NaN == -1
\* a missing price in the request body (falsy, so !price holds)
NoPrice == 0

\* flights rows as selected by createTicket / updateTicket (multipliers in
\* hundredths): flight 1 carries the column defaults, flight 2 its own values
FlightRow == [base_price |-> 200,
              first_class_multiplier |-> 400,
              business_class_multiplier |-> 250,
              economy_class_multiplier |-> 100,
              woman_only_multiplier |-> 120]
FlightRows ==
  (1 :> FlightRow) @@
  (2 :> [base_price |-> 300,
         first_class_multiplier |-> 380,
         business_class_multiplier |-> 240,
         economy_class_multiplier |-> 100,
         woman_only_multiplier |-> 110])

\* `${ticketClass}_multiplier`
MultiplierField(c) ==
  CASE c = "first"      -> "first_multiplier"
    [] c = "business"   -> "business_multiplier"
    [] c = "economy"    -> "economy_multiplier"
    [] c = "woman_only" -> "woman_only_multiplier"

\* flight.base_price * flight[multiplierField]
ModelPrice(f, c) ==
  IF MultiplierField(c) \in DOMAIN FlightRows[f]
  THEN (FlightRows[f].base_price * FlightRows[f][MultiplierField(c)]) \div 100
  ELSE NaN

\* ------------------------------------------------------------------ state
VARIABLES
  pools,        \* flight_seats: <<flight, class>> -> committed row
  rowLock,      \* InnoDB exclusive lock on a flight_seats row: holder or 0
  tickets,      \* tickets: set of committed rows
  nextTicketId, \* AUTO_INCREMENT of tickets
  pc,           \* position of each request
  req,          \* arguments of each request
  loc,          \* locals of each request while it runs
  result,       \* what the request returned or threw
  started,      \* number of requests issued so far
  flights,      \* flights: flight_id -> committed row (existence and status)
  aircraft      \* aircraft row of the flights: model and capacity

vars == <<pools, rowLock, tickets, nextTicketId, pc, req, loc, result, started, flights, aircraft>>

PoolKeys == Flights \X Classes
NoRow == [exists |-> FALSE, available |-> <<>>, booked |-> <<>>]
Row(a, b) == [exists |-> TRUE, available |-> a, booked |-> b]

NoSeat == <<0, 0>>
\* a request without an Authorization header
NoToken == [sig |-> "", id |-> 0]
NoHeader == [scheme |-> "", token |-> NoToken]
NoTicket == [ticket_id |-> 0, user_id |-> 0, flight_id |-> 0, seat_number |-> NoSeat,
             class |-> "", price |-> 0, payment_status |-> ""]
NoReq == [op |-> "", user_id |-> 0, flight_id |-> 0, seat_number |-> NoSeat, class |-> "",
          price |-> 0, ticket_id |-> 0, auth |-> 0, body_price |-> 0,
          configuration |-> [c \in Classes |-> Absent], authorization |-> NoHeader]
NoLoc == [cur |-> NoTicket, availableSeats |-> <<>>, bookedSeats |-> <<>>,
          classLayouts |-> [c \in Classes |-> <<>>]]

\* error messages thrown by the models
ErrSeatNotAvailable == "Seat is not available"
ErrSeatNotBooked == "Seat is not currently booked"
ErrClassNotFound == "Seat class not found for this flight"
ErrWomanOnly == "Woman-only seats can only be booked by female passengers"
ErrUserNotFound == "User not found"
ErrTicketNotFound == "Ticket not found"
ErrRequestedSeat == "The requested seat is not available"
ErrReconfigure == "Cannot reconfigure flight with existing bookings"
ErrDuplicate == "ER_DUP_ENTRY"
ErrForeignKey == "ER_NO_REFERENCED_ROW"
ErrBadField == "ER_BAD_FIELD_ERROR"
ErrFlightNotFound == "Flight not found"
ErrCanceled == "Cannot book tickets for a canceled flight"
ErrCompleted == "Cannot book tickets for a completed flight"
ErrSeatTaken == "Seat already booked or not available in this class"
ErrAlreadyInitialized == "Seats are already initialized for this flight"
ErrFlightHasTickets == "Cannot delete flight with booked tickets"
ErrRowReferenced == "ER_ROW_IS_REFERENCED"
ErrNotAuthorized == "Not authorized to access this route"
ErrUserGone == "User no longer exists"
ErrTicketNotFoundId == "Ticket not found with id"
ErrNotOwner == "Not authorized to delete this ticket"
ErrDeparted == "Cannot cancel ticket for a flight that has departed"
ErrOfUndefined == "TypeError"
ErrAlreadyCanceled == "Flight is already canceled"
ErrArrived == "Cannot cancel an arrived flight"
Ok == "ok"
NotUpdated == "false"

TypeOK ==
  /\ DOMAIN pools = PoolKeys
  /\ rowLock \in [PoolKeys -> Procs \cup {0}]
  /\ nextTicketId \in Nat
  /\ pc \in [Procs -> STRING]
  /\ DOMAIN req = Procs
  /\ DOMAIN loc = Procs
  /\ result \in [Procs -> STRING]
  /\ started \in 0..MaxRequests
  /\ flights \in [Flights -> [exists : BOOLEAN, status : Statuses]]
  /\ aircraft \in [model : STRING, capacity : Nat]

\* flights table with every flight scheduled
ScheduledFlights == [f \in Flights |-> [exists |-> TRUE, status |-> "scheduled"]]

\* flight_seats as left by initializeFlightSeats on every flight
InitializedPools ==
  LET layouts == generateSeatLayouts(calculateSeatDistribution(AircraftModel, Capacity), AircraftModel)
  IN  [k \in PoolKeys |-> Row(layouts[k[2]], <<>>)]

\* the flights exist; their seats are either not initialized yet or freshly
\* initialized, and nothing is booked
Init ==
  /\ pools \in {[k \in PoolKeys |-> NoRow], InitializedPools}
  /\ rowLock = [k \in PoolKeys |-> 0]
  /\ tickets = {}
  /\ nextTicketId = 1
  /\ pc = [p \in Procs |-> "idle"]
  /\ req = [p \in Procs |-> NoReq]
  /\ loc = [p \in Procs |-> NoLoc]
  /\ result = [p \in Procs |-> ""]
  /\ started = 0
  /\ flights = ScheduledFlights
  /\ aircraft = [model |-> AircraftModel, capacity |-> Capacity]

Free(p) == pc[p] \in {"idle", "done"}

\* a request is served in the first free slot, while the bound on issued
\* requests is not reached
CanStart(p) ==
  /\ Free(p)
  /\ \A q \in Procs : q < p => ~Free(q)
  /\ started < MaxRequests

\* the handler returns or throws: its locals are gone
Finish(p, res) ==
  /\ pc' = [pc EXCEPT ![p] = "done"]
  /\ result' = [result EXCEPT ![p] = res]
  /\ loc' = [loc EXCEPT ![p] = NoLoc]

\* the handler goes on at position l with locals x
Goto(p, l, x) ==
  /\ pc' = [pc EXCEPT ![p] = l]
  /\ loc' = [loc EXCEPT ![p] = x]
  /\ UNCHANGED result

\* ------------------------------------------------------------ seat store
\* isSeatAvailable: plain read of the committed row
isSeatAvailable(f, c, s) ==
  /\ pools[<<f, c>>].exists
  /\ Includes(pools[<<f, c>>].available, s)

\* initializeFlightSeats: one transaction inserting the four generated rows;
\* the unique key (flight_id, class) rejects the first insert of a second run
InitializeFlightSeats(p, f) ==
  /\ CanStart(p)
  /\ started' = started + 1
  /\ req' = [req EXCEPT ![p] = [NoReq EXCEPT !.op = "initializeFlightSeats", !.flight_id = f]]
  /\ LET layouts == generateSeatLayouts(calculateSeatDistribution(aircraft.model, aircraft.capacity),
                                        aircraft.model)
     IN  IF \E c \in Classes : pools[<<f, c>>].exists
         THEN /\ Finish(p, ErrDuplicate)
              /\ UNCHANGED pools
         ELSE /\ pools' = [k \in PoolKeys |->
                             IF k[1] = f THEN Row(layouts[k[2]], <<>>) ELSE pools[k]]
              /\ Finish(p, Ok)
  /\ UNCHANGED <<rowLock, tickets, nextTicketId, flights, aircraft>>

\* ---- bookSeat / releaseSeat: own connection, own transaction ----------
\* arguments of the bookSeat call the request is in
BookKey(p) ==
  <<IF req[p].op = "updateTicket" THEN loc[p].cur.flight_id ELSE req[p].flight_id, req[p].class>>
\* arguments of the releaseSeat call: the ticket row read by the caller
ReleaseKey(p) == <<loc[p].cur.flight_id, loc[p].cur.class>>

\* SELECT ... FOR UPDATE waits while another transaction holds the row lock
LockFreeNoWait(k) == TRUE
LockFreeWholeTable(k) == \A j \in PoolKeys : rowLock[j] = 0
LockFree(k) == rowLock[k] = 0

BookSeatLockNoTest(p) ==
  /\ pc[p] = "bs_lock"
  /\ LET k == BookKey(p)
     IN  IF ~pools[k].exists
         THEN /\ Finish(p, ErrClassNotFound)
              /\ UNCHANGED rowLock
         ELSE /\ LockFree(k)
              /\ IF FALSE
                 THEN /\ Finish(p, ErrSeatNotAvailable)
                      /\ UNCHANGED rowLock
                 ELSE /\ rowLock' = [rowLock EXCEPT ![k] = p]
                      /\ Goto(p, "bs_write", [loc[p] EXCEPT !.availableSeats = pools[k].available,
                                                            !.bookedSeats = pools[k].booked])
  /\ UNCHANGED <<pools, tickets, nextTicketId, req, started, flights, aircraft>>

\* bookSeat up to the availability test: lock the row, read it, test the seat;
\* a throw rolls back, releases the lock and propagates to the caller's catch
BookSeatLock(p) ==
  /\ pc[p] = "bs_lock"
  /\ LET k == BookKey(p)
     IN  IF ~pools[k].exists
         THEN /\ Finish(p, ErrClassNotFound)
              /\ UNCHANGED rowLock
         ELSE /\ LockFree(k)
              /\ IF IndexOf(pools[k].available, req[p].seat_number) = 0
                 THEN /\ Finish(p, ErrSeatNotAvailable)
                      /\ UNCHANGED rowLock
                 ELSE /\ rowLock' = [rowLock EXCEPT ![k] = p]
                      /\ Goto(p, "bs_write", [loc[p] EXCEPT !.availableSeats = pools[k].available,
                                                            !.bookedSeats = pools[k].booked])
  /\ UNCHANGED <<pools, tickets, nextTicketId, req, started, flights, aircraft>>

\* the row bookSeat writes: the seat spliced out of available, pushed to booked
BookedRowKeepAvailable(availableSeats, bookedSeats, s) ==
  Row(availableSeats, Append(bookedSeats, s))
BookedRow(availableSeats, bookedSeats, s) ==
  Row(Splice(availableSeats, IndexOf(availableSeats, s)), Append(bookedSeats, s))

BookSeatCommitEveryClass(p) ==
  /\ pc[p] = "bs_write"
  /\ LET k == BookKey(p)
     IN  /\ pools' = [j \in PoolKeys |->
                        IF j[1] = k[1] /\ pools[j].exists
                        THEN BookedRow(loc[p].availableSeats, loc[p].bookedSeats, req[p].seat_number)
                        ELSE pools[j]]
         /\ rowLock' = [rowLock EXCEPT ![k] = 0]
  /\ IF req[p].op = "bookSeat"
     THEN Finish(p, Ok)
     ELSE /\ pc' = [pc EXCEPT ![p] = IF req[p].op \in {"createTicket", "bookTicket"}
                                      THEN "ct_insert" ELSE "ut_update"]
          /\ UNCHANGED <<loc, result>>
  /\ UNCHANGED <<tickets, nextTicketId, req, started, flights, aircraft>>

\* bookSeat from splice/push to commit: write the row, commit, release the
\* lock and return to createTicket, to updateTicket or to a direct caller
BookSeatCommit(p) ==
  /\ pc[p] = "bs_write"
  /\ LET k == BookKey(p)
     IN  /\ pools' = [pools EXCEPT ![k] =
                        BookedRow(loc[p].availableSeats, loc[p].bookedSeats, req[p].seat_number)]
         /\ rowLock' = [rowLock EXCEPT ![k] = 0]
  /\ IF req[p].op = "bookSeat"
     THEN Finish(p, Ok)
     ELSE /\ pc' = [pc EXCEPT ![p] = IF req[p].op \in {"createTicket", "bookTicket"}
                                      THEN "ct_insert" ELSE "ut_update"]
          /\ UNCHANGED <<loc, result>>
  /\ UNCHANGED <<tickets, nextTicketId, req, started, flights, aircraft>>

\* releaseSeat up to the booked test
ReleaseSeatLock(p) ==
  /\ pc[p] = "rs_lock"
  /\ LET k == ReleaseKey(p)
     IN  IF ~pools[k].exists
         THEN /\ Finish(p, ErrClassNotFound)
              /\ UNCHANGED rowLock
         ELSE /\ LockFree(k)
              /\ IF IndexOf(pools[k].booked, loc[p].cur.seat_number) = 0
                 THEN /\ Finish(p, ErrSeatNotBooked)
                      /\ UNCHANGED rowLock
                 ELSE /\ rowLock' = [rowLock EXCEPT ![k] = p]
                      /\ Goto(p, "rs_write", [loc[p] EXCEPT !.availableSeats = pools[k].available,
                                                            !.bookedSeats = pools[k].booked])
  /\ UNCHANGED <<pools, tickets, nextTicketId, req, started, flights, aircraft>>

\* the row releaseSeat writes: the seat spliced out of booked, pushed to
\* available, available sorted
ReleasedRowKeepBooked(availableSeats, bookedSeats, s) ==
  Row(SortSeats(Append(availableSeats, s)), bookedSeats)
ReleasedRow(availableSeats, bookedSeats, s) ==
  Row(SortSeats(Append(availableSeats, s)), Splice(bookedSeats, IndexOf(bookedSeats, s)))

\* releaseSeat from splice/push/sort to commit; returns to updateTicket
\* (which books the new seat next), to deleteTicket or to a direct caller
ReleaseSeatCommit(p) ==
  /\ pc[p] = "rs_write"
  /\ LET k == ReleaseKey(p)
     IN  /\ pools' = [pools EXCEPT ![k] =
                        ReleasedRow(loc[p].availableSeats, loc[p].bookedSeats, loc[p].cur.seat_number)]
         /\ rowLock' = [rowLock EXCEPT ![k] = 0]
  /\ IF req[p].op = "releaseSeat"
     THEN Finish(p, Ok)
     ELSE /\ pc' = [pc EXCEPT ![p] = IF req[p].op = "updateTicket" THEN "bs_lock" ELSE "dt_delete"]
          /\ UNCHANGED <<loc, result>>
  /\ UNCHANGED <<tickets, nextTicketId, req, started, flights, aircraft>>


\* ------------------------------------------------------------ createTicket
\* createTicket lines 309-353: what the checks before bookSeat end in
CreateTicketChecks(p, d) ==
  IF ~isSeatAvailable(d.flight_id, d.class, d.seat_number)
  THEN Finish(p, ErrSeatNotAvailable)
  ELSE IF d.class = "woman_only" /\ d.user_id \notin Users
  THEN Finish(p, ErrUserNotFound)
  ELSE IF d.class = "woman_only" /\ ~validateWomanOnlySeat(UserGender[d.user_id])
  THEN Finish(p, ErrWomanOnly)
  ELSE IF d.price = NoPrice /\ ~flights[d.flight_id].exists
  THEN Finish(p, ErrFlightNotFound)
  ELSE Goto(p, "bs_lock", NoLoc)

\* createTicket lines 295-353: availability read, woman_only check, price
CreateTicketBegin(p, d) ==
  /\ CanStart(p)
  /\ started' = started + 1
  /\ req' = [req EXCEPT ![p] = [NoReq EXCEPT !.op = "createTicket", !.user_id = d.user_id,
               !.flight_id = d.flight_id, !.seat_number = d.seat_number, !.class = d.class,
               !.price = IF d.price = NoPrice THEN ModelPrice(d.flight_id, d.class) ELSE d.price,
               !.body_price = d.price]]
  /\ CreateTicketChecks(p, d)
  /\ UNCHANGED <<pools, rowLock, tickets, nextTicketId, flights, aircraft>>

\* what the INSERT / UPDATE of a tickets row is rejected with, "" if accepted:
\* NaN is sent as a bare word, user_id is a foreign key, (flight_id,
\* seat_number) is unique
TicketWriteError(id, user, f, seat, price) ==
  IF price = NaN THEN ErrBadField
  ELSE IF user \notin Users \/ ~flights[f].exists THEN ErrForeignKey
  ELSE IF \E t \in tickets : t.ticket_id # id /\ t.flight_id = f /\ t.seat_number = seat
       THEN ErrDuplicate
  ELSE ""

\* createTicket lines 358-381: INSERT and commit, or rollback of the INSERT
CreateTicketInsert(p) ==
  /\ pc[p] = "ct_insert"
  /\ LET r == req[p]
         err == TicketWriteError(0, r.user_id, r.flight_id, r.seat_number, r.price)
     IN  IF err # ""
         THEN /\ Finish(p, err)
              /\ UNCHANGED <<tickets, nextTicketId, req>>
         ELSE /\ tickets' = tickets \cup
                   {[ticket_id |-> nextTicketId, user_id |-> r.user_id, flight_id |-> r.flight_id,
                     seat_number |-> r.seat_number, class |-> r.class, price |-> r.price,
                     payment_status |-> "pending"]}
              /\ nextTicketId' = nextTicketId + 1
              /\ req' = [req EXCEPT ![p].ticket_id = nextTicketId]
              /\ Finish(p, Ok)
  /\ UNCHANGED <<pools, rowLock, started, flights, aircraft>>

\* ------------------------------------------------------------ updateTicket
UpdateTicketReadNoGenderTest(p, id, d) ==
  /\ CanStart(p)
  /\ started' = started + 1
  /\ IF ~\E t \in tickets : t.ticket_id = id
     THEN /\ req' = [req EXCEPT ![p] = [NoReq EXCEPT !.op = "updateTicket", !.ticket_id = id]]
          /\ Finish(p, ErrTicketNotFound)
     ELSE LET currentTicket == CHOOSE t \in tickets : t.ticket_id = id
              finalSeatNumber == IF d.seat_number # NoSeat THEN d.seat_number
                                 ELSE currentTicket.seat_number
              finalTicketClass == IF d.class # "" THEN d.class ELSE currentTicket.class
              changing == \/ d.seat_number # NoSeat /\ d.seat_number # currentTicket.seat_number
                          \/ d.class # "" /\ d.class # currentTicket.class
          IN  /\ req' = [req EXCEPT ![p] = [NoReq EXCEPT !.op = "updateTicket", !.ticket_id = id,
                           !.seat_number = finalSeatNumber, !.class = finalTicketClass,
                           !.price = d.price]]
              /\ IF FALSE
                 THEN Finish(p, ErrWomanOnly)
                 ELSE Goto(p, IF changing THEN "ut_check" ELSE "ut_update",
                           [NoLoc EXCEPT !.cur = currentTicket])
  /\ UNCHANGED <<pools, rowLock, tickets, nextTicketId, flights, aircraft>>

\* updateTicket lines 391-433: read the ticket row, work out the final seat
\* and class, and check the woman_only restriction of a class change
UpdateTicketRead(p, id, d) ==
  /\ CanStart(p)
  /\ started' = started + 1
  /\ IF ~\E t \in tickets : t.ticket_id = id
     THEN /\ req' = [req EXCEPT ![p] = [NoReq EXCEPT !.op = "updateTicket", !.ticket_id = id]]
          /\ Finish(p, ErrTicketNotFound)
     ELSE LET currentTicket == CHOOSE t \in tickets : t.ticket_id = id
              finalSeatNumber == IF d.seat_number # NoSeat THEN d.seat_number
                                 ELSE currentTicket.seat_number
              finalTicketClass == IF d.class # "" THEN d.class ELSE currentTicket.class
              changing == \/ d.seat_number # NoSeat /\ d.seat_number # currentTicket.seat_number
                          \/ d.class # "" /\ d.class # currentTicket.class
          IN  /\ req' = [req EXCEPT ![p] = [NoReq EXCEPT !.op = "updateTicket", !.ticket_id = id,
                           !.seat_number = finalSeatNumber, !.class = finalTicketClass,
                           !.price = d.price]]
              /\ IF changing /\ d.class = "woman_only" /\ d.class # currentTicket.class
                    /\ ~validateWomanOnlySeat(UserGender[currentTicket.user_id])
                 THEN Finish(p, ErrWomanOnly)
                 ELSE Goto(p, IF changing THEN "ut_check" ELSE "ut_update",
                           [NoLoc EXCEPT !.cur = currentTicket])
  /\ UNCHANGED <<pools, rowLock, tickets, nextTicketId, flights, aircraft>>

\* updateTicket lines 436-445: is the new seat available
UpdateTicketCheck(p) ==
  /\ pc[p] = "ut_check"
  /\ IF ~isSeatAvailable(loc[p].cur.flight_id, req[p].class, req[p].seat_number)
     THEN Finish(p, ErrRequestedSeat)
     ELSE Goto(p, "rs_lock", loc[p])
  /\ UNCHANGED <<pools, rowLock, tickets, nextTicketId, req, started, flights, aircraft>>

\* updateTicket lines 463-510: price of a class change, UPDATE, commit
UpdateTicketWrite(p) ==
  /\ pc[p] = "ut_update"
  /\ LET r == req[p]
         cur == loc[p].cur
         finalPrice == IF r.class # cur.class /\ r.price = NoPrice
                       THEN ModelPrice(cur.flight_id, r.class) ELSE r.price
         err == TicketWriteError(r.ticket_id, cur.user_id, cur.flight_id, r.seat_number, finalPrice)
         hit == {t \in tickets : t.ticket_id = r.ticket_id}
     IN  IF err = ErrBadField \/ (hit # {} /\ err # "")
         THEN /\ Finish(p, err)
              /\ UNCHANGED tickets
         ELSE /\ tickets' = (tickets \ hit) \cup
                   {[t EXCEPT !.seat_number = r.seat_number, !.class = r.class,
                              !.price = IF finalPrice = NoPrice THEN t.price ELSE finalPrice]
                      : t \in hit}
              /\ Finish(p, IF hit # {} THEN Ok ELSE NotUpdated)
  /\ UNCHANGED <<pools, rowLock, nextTicketId, req, started, flights, aircraft>>

\* ------------------------------------------------------------ deleteTicket
\* deleteTicket lines 519-534: read the ticket row
DeleteTicketFind(p, id) ==
  IF ~\E t \in tickets : t.ticket_id = id
  THEN Finish(p, ErrTicketNotFound)
  ELSE Goto(p, "rs_lock", [NoLoc EXCEPT !.cur = CHOOSE t \in tickets : t.ticket_id = id])

DeleteTicketRead(p, id) ==
  /\ CanStart(p)
  /\ started' = started + 1
  /\ req' = [req EXCEPT ![p] = [NoReq EXCEPT !.op = "deleteTicket", !.ticket_id = id]]
  /\ DeleteTicketFind(p, id)
  /\ UNCHANGED <<pools, rowLock, tickets, nextTicketId, flights, aircraft>>

\* deleteTicket lines 543-558: DELETE the row, commit
DeleteTicketDelete(p) ==
  /\ pc[p] = "dt_delete"
  /\ LET hit == {t \in tickets : t.ticket_id = req[p].ticket_id}
     IN  /\ tickets' = tickets \ hit
         /\ Finish(p, IF hit # {} THEN Ok ELSE NotUpdated)
  /\ UNCHANGED <<pools, rowLock, nextTicketId, req, started, flights, aircraft>>

\* -------------------------------------------------- reconfigureFlightSeats
\* some row of the flight has a non-empty booked_seats
HasBookings(f) == \E c \in Classes : pools[<<f, c>>].exists /\ Len(pools[<<f, c>>].booked) > 0

ReconfigureCheckSkipped(p, f, configuration) ==
  /\ CanStart(p)
  /\ started' = started + 1
  /\ req' = [req EXCEPT ![p] = [NoReq EXCEPT !.op = "reconfigureFlightSeats", !.flight_id = f,
                                              !.configuration = configuration]]
  /\ Goto(p, "rc_replace", [NoLoc EXCEPT !.classLayouts =
                              generateCustomSeatLayouts(configuration, aircraft.model, aircraft.capacity)])
  /\ UNCHANGED <<pools, rowLock, tickets, nextTicketId, flights, aircraft>>

\* reconfigureFlightSeats lines 283-320: the booking check and the new layout
ReconfigureCheck(p, f, configuration) ==
  /\ CanStart(p)
  /\ started' = started + 1
  /\ req' = [req EXCEPT ![p] = [NoReq EXCEPT !.op = "reconfigureFlightSeats", !.flight_id = f,
                                              !.configuration = configuration]]
  /\ IF HasBookings(f)
     THEN Finish(p, ErrReconfigure)
     ELSE Goto(p, "rc_replace", [NoLoc EXCEPT !.classLayouts =
                                   generateCustomSeatLayouts(configuration, aircraft.model, aircraft.capacity)])
  /\ UNCHANGED <<pools, rowLock, tickets, nextTicketId, flights, aircraft>>

\* reconfigureFlightSeats lines 322-350: DELETE the rows (waiting for their
\* locks), INSERT the new ones, commit
ReconfigureReplace(p) ==
  /\ pc[p] = "rc_replace"
  /\ \A c \in Classes : LockFree(<<req[p].flight_id, c>>)
  /\ pools' = [k \in PoolKeys |->
                 IF k[1] = req[p].flight_id THEN Row(loc[p].classLayouts[k[2]], <<>>)
                 ELSE pools[k]]
  /\ Finish(p, Ok)
  /\ UNCHANGED <<rowLock, tickets, nextTicketId, req, started, flights, aircraft>>

\* ------------------------------------------------- bookTicket (controller)
\* the fallback table of the controller (hundredths)
DefaultMultipliers == [economy |-> 100, business |-> 250, first |-> 400, woman_only |-> 120]

\* `${ticketClass}_class_multiplier`
ControllerMultiplierField(c) ==
  CASE c = "first"      -> "first_class_multiplier"
    [] c = "business"   -> "business_class_multiplier"
    [] c = "economy"    -> "economy_class_multiplier"
    [] c = "woman_only" -> "woman_only_class_multiplier"

\* the columns of the row getFlightById returns
GetFlightByIdColumns ==
  {"flight_id", "flight_number", "route_id", "origin", "destination", "aircraft_id",
   "aircraft_model", "registration_number", "departure_time", "arrival_time", "status",
   "gate", "base_price", "crew_id", "crew_name", "booked_seats", "total_capacity"}

\* flight.base_price * (flight[multiplierField] || defaultMultipliers[ticketClass])
ControllerPrice(f, c) ==
  LET field == ControllerMultiplierField(c)
      stored == IF field \in GetFlightByIdColumns /\ field \in DOMAIN FlightRows[f]
                THEN FlightRows[f][field] ELSE 0
      multiplier == IF stored # 0 THEN stored ELSE DefaultMultipliers[c]
  IN  (FlightRows[f].base_price * multiplier) \div 100

BookTicketRequestSeatFirst(p, d) ==
  /\ CanStart(p)
  /\ started' = started + 1
  /\ req' = [req EXCEPT ![p] = [NoReq EXCEPT !.op = "bookTicket", !.auth = d.auth,
               !.user_id = d.user_id, !.flight_id = d.flight_id, !.seat_number = d.seat_number,
               !.class = d.class, !.price = d.price, !.body_price = d.price]]
  /\ IF ~isSeatAvailable(d.flight_id, d.class, d.seat_number) THEN Finish(p, ErrSeatTaken)
     ELSE IF ~flights[d.flight_id].exists THEN Finish(p, ErrFlightNotFound)
     ELSE IF flights[d.flight_id].status = "canceled" THEN Finish(p, ErrCanceled)
     ELSE IF flights[d.flight_id].status = "arrived" THEN Finish(p, ErrCompleted)
     ELSE Goto(p, "bt_seat", NoLoc)
  /\ UNCHANGED <<pools, rowLock, tickets, nextTicketId, flights, aircraft>>

\* bookTicket lines 168-182: what the lookup of the flight ends in
BookTicketFlight(p, d) ==
  IF ~flights[d.flight_id].exists THEN Finish(p, ErrFlightNotFound)
  ELSE IF flights[d.flight_id].status = "canceled" THEN Finish(p, ErrCanceled)
  ELSE IF flights[d.flight_id].status = "arrived" THEN Finish(p, ErrCompleted)
  ELSE Goto(p, "bt_seat", NoLoc)

\* bookTicket lines 168-182: the flight is looked up and its status tested
BookTicketRequest(p, d) ==
  /\ CanStart(p)
  /\ started' = started + 1
  /\ req' = [req EXCEPT ![p] = [NoReq EXCEPT !.op = "bookTicket", !.auth = d.auth,
               !.user_id = d.user_id, !.flight_id = d.flight_id, !.seat_number = d.seat_number,
               !.class = d.class, !.price = d.price, !.body_price = d.price]]
  /\ BookTicketFlight(p, d)
  /\ UNCHANGED <<pools, rowLock, tickets, nextTicketId, flights, aircraft>>

\* bookTicket lines 184-225: availability read, woman_only check on the
\* authenticated user, default of user_id, price
BookTicketSeat(p) ==
  /\ pc[p] = "bt_seat"
  /\ LET r == req[p]
     IN  IF ~isSeatAvailable(r.flight_id, r.class, r.seat_number)
         THEN /\ Finish(p, ErrSeatTaken)
              /\ UNCHANGED req
         ELSE IF r.class = "woman_only" /\ ~validateWomanOnlySeat(UserGender[r.auth])
         THEN /\ Finish(p, ErrWomanOnly)
              /\ UNCHANGED req
         ELSE /\ req' = [req EXCEPT ![p].user_id = IF r.user_id = 0 THEN r.auth ELSE r.user_id,
                                    ![p].price = IF r.price = NoPrice
                                                 THEN ControllerPrice(r.flight_id, r.class)
                                                 ELSE r.price]
              /\ Goto(p, "bt_create", NoLoc)
  /\ UNCHANGED <<pools, rowLock, tickets, nextTicketId, started, flights, aircraft>>

\* bookTicket line 229: the call of createTicket, up to its bookSeat
BookTicketCreate(p) ==
  /\ pc[p] = "bt_create"
  /\ CreateTicketChecks(p, req[p])
  /\ UNCHANGED <<pools, rowLock, tickets, nextTicketId, req, started, flights, aircraft>>

\* ------------------------------------------- holdSeat / releaseSeat (HTTP)
\* holdSeat lines 472-484: the flight is looked up
HoldSeatRequest(p, d) ==
  /\ CanStart(p)
  /\ started' = started + 1
  /\ req' = [req EXCEPT ![p] = [NoReq EXCEPT !.op = "holdSeat", !.auth = d.auth,
               !.flight_id = d.flight_id, !.seat_number = d.seat_number, !.class = d.class]]
  /\ IF ~flights[d.flight_id].exists THEN Finish(p, ErrFlightNotFound)
     ELSE Goto(p, "hs_seat", NoLoc)
  /\ UNCHANGED <<pools, rowLock, tickets, nextTicketId, flights, aircraft>>

\* holdSeat lines 490-518: availability read, woman_only check, and the
\* answer with hold_expiry; nothing is stored
HoldSeatAnswer(p) ==
  /\ pc[p] = "hs_seat"
  /\ LET r == req[p]
     IN  IF ~isSeatAvailable(r.flight_id, r.class, r.seat_number)
         THEN Finish(p, ErrSeatNotAvailable)
         ELSE IF r.class = "woman_only" /\ ~validateWomanOnlySeat(UserGender[r.auth])
         THEN Finish(p, ErrWomanOnly)
         ELSE Finish(p, Ok)
  /\ UNCHANGED <<pools, rowLock, tickets, nextTicketId, req, started, flights, aircraft>>

\* releaseSeat (controller) lines 523-549: the flight is looked up and the
\* release is acknowledged
ReleaseHeldSeat(p, d) ==
  /\ CanStart(p)
  /\ started' = started + 1
  /\ req' = [req EXCEPT ![p] = [NoReq EXCEPT !.op = "releaseHeldSeat", !.auth = d.auth,
               !.flight_id = d.flight_id, !.seat_number = d.seat_number, !.class = d.class]]
  /\ IF ~flights[d.flight_id].exists THEN Finish(p, ErrFlightNotFound) ELSE Finish(p, Ok)
  /\ UNCHANGED <<pools, rowLock, tickets, nextTicketId, flights, aircraft>>

\* ------------------------------------------------------ protect (auth.js)
\* jwt.verify: the payload of a token signed with the secret and not expired
JwtVerifies(token) == token.sig = "valid"

ProtectNoUserLookup(h) ==
  IF h.scheme # "Bearer" \/ h.token = NoToken THEN [user |-> 0, error |-> ErrNotAuthorized]
  ELSE IF ~JwtVerifies(h.token) THEN [user |-> 0, error |-> ErrNotAuthorized]
  ELSE [user |-> h.token.id, error |-> ""]

\* protect lines 10-46: the user the request is served as, or the 401 error
Protect(h) ==
  IF h.scheme # "Bearer" \/ h.token = NoToken THEN [user |-> 0, error |-> ErrNotAuthorized]
  ELSE IF ~JwtVerifies(h.token) THEN [user |-> 0, error |-> ErrNotAuthorized]
  ELSE IF h.token.id \notin Users THEN [user |-> 0, error |-> ErrUserGone]
  ELSE [user |-> h.token.id, error |-> ""]

\* next(new ErrorResponse(..., 401)): the route handler is not called
Rejected(p, h, op, error) ==
  /\ CanStart(p)
  /\ started' = started + 1
  /\ req' = [req EXCEPT ![p] = [NoReq EXCEPT !.op = op, !.authorization = h]]
  /\ Finish(p, error)
  /\ UNCHANGED <<pools, rowLock, tickets, nextTicketId, flights, aircraft>>

\* router.route('/').post(protect, bookTicket)
PostTicket(p, h, d) ==
  IF Protect(h).error # "" THEN Rejected(p, h, "bookTicket", Protect(h).error)
  ELSE /\ CanStart(p)
       /\ started' = started + 1
       /\ req' = [req EXCEPT ![p] = [NoReq EXCEPT !.op = "bookTicket", !.authorization = h,
                    !.auth = Protect(h).user, !.user_id = d.user_id, !.flight_id = d.flight_id,
                    !.seat_number = d.seat_number, !.class = d.class, !.price = d.price,
                    !.body_price = d.price]]
       /\ BookTicketFlight(p, d)
       /\ UNCHANGED <<pools, rowLock, tickets, nextTicketId, flights, aircraft>>

\* GET /api/auth/me: protect, then getMe answers with req.user
GetMe(p, h) ==
  IF Protect(h).error # "" THEN Rejected(p, h, "getMe", Protect(h).error)
  ELSE /\ CanStart(p)
       /\ started' = started + 1
       /\ req' = [req EXCEPT ![p] = [NoReq EXCEPT !.op = "getMe", !.authorization = h,
                                                 !.auth = Protect(h).user]]
       /\ Finish(p, Ok)
       /\ UNCHANGED <<pools, rowLock, tickets, nextTicketId, flights, aircraft>>

\* router.route('/:id').delete(protect, deleteTicket); deleteTicket
\* (controller) lines 313-323: the ticket is looked up and its owner tested
\* (the users of the model have the role 'user')
DeleteTicketRoute(p, h, id) ==
  IF Protect(h).error # "" THEN Rejected(p, h, "deleteTicket", Protect(h).error)
  ELSE /\ CanStart(p)
       /\ started' = started + 1
       /\ req' = [req EXCEPT ![p] = [NoReq EXCEPT !.op = "deleteTicket", !.authorization = h,
                                                 !.auth = Protect(h).user, !.ticket_id = id]]
       /\ LET hit == {t \in tickets : t.ticket_id = id}
          IN  IF hit = {} THEN Finish(p, ErrTicketNotFoundId)
              ELSE IF \E t \in hit : t.user_id # Protect(h).user THEN Finish(p, ErrNotOwner)
              ELSE Goto(p, "dr_flight", [NoLoc EXCEPT !.cur = CHOOSE t \in hit : TRUE])
       /\ UNCHANGED <<pools, rowLock, tickets, nextTicketId, flights, aircraft>>

\* deleteTicket (controller) lines 325-329: the status of the ticket's flight
DeleteTicketFlight(p) ==
  /\ pc[p] = "dr_flight"
  /\ LET f == loc[p].cur.flight_id
     IN  IF ~flights[f].exists THEN Finish(p, ErrOfUndefined)
         ELSE IF flights[f].status # "scheduled" THEN Finish(p, ErrDeparted)
         ELSE Goto(p, "dr_model", NoLoc)
  /\ UNCHANGED <<pools, rowLock, tickets, nextTicketId, req, started, flights, aircraft>>

\* deleteTicket (controller) line 332: the call of the model's deleteTicket
DeleteTicketCall(p) ==
  /\ pc[p] = "dr_model"
  /\ DeleteTicketFind(p, req[p].ticket_id)
  /\ UNCHANGED <<pools, rowLock, tickets, nextTicketId, req, started, flights, aircraft>>

\* ------------------------------------------------------------ cancelFlight
\* cancelFlight lines 207-219: the flight is looked up and its status tested
CancelFlightRequest(p, f) ==
  /\ CanStart(p)
  /\ started' = started + 1
  /\ req' = [req EXCEPT ![p] = [NoReq EXCEPT !.op = "cancelFlight", !.flight_id = f]]
  /\ IF ~flights[f].exists THEN Finish(p, ErrFlightNotFound)
     ELSE IF flights[f].status = "canceled" THEN Finish(p, ErrAlreadyCanceled)
     ELSE IF flights[f].status = "arrived" THEN Finish(p, ErrArrived)
     ELSE Goto(p, "cf_update", NoLoc)
  /\ UNCHANGED <<pools, rowLock, tickets, nextTicketId, flights, aircraft>>

\* cancelFlight line 221: UPDATE flights SET status = 'canceled'
CancelFlightUpdate(p) ==
  /\ pc[p] = "cf_update"
  /\ flights' = [flights EXCEPT ![req[p].flight_id].status =
                   IF flights[req[p].flight_id].exists THEN "canceled" ELSE @]
  /\ Finish(p, Ok)
  /\ UNCHANGED <<pools, rowLock, tickets, nextTicketId, req, started, aircraft>>

\* --------------------------------------- initializeFlightSeats (controller)
\* controller lines 837-842: the flight is looked up
InitializeSeatsRequest(p, f) ==
  /\ CanStart(p)
  /\ started' = started + 1
  /\ req' = [req EXCEPT ![p] = [NoReq EXCEPT !.op = "initializeSeats", !.flight_id = f]]
  /\ IF ~flights[f].exists THEN Finish(p, ErrFlightNotFound)
     ELSE Goto(p, "is_check", NoLoc)
  /\ UNCHANGED <<pools, rowLock, tickets, nextTicketId, flights, aircraft>>

\* controller lines 844-848: the seat map is read; any row means initialized
InitializeSeatsCheck(p) ==
  /\ pc[p] = "is_check"
  /\ IF \E c \in Classes : pools[<<req[p].flight_id, c>>].exists
     THEN Finish(p, ErrAlreadyInitialized)
     ELSE Goto(p, "is_run", NoLoc)
  /\ UNCHANGED <<pools, rowLock, tickets, nextTicketId, req, started, flights, aircraft>>

InitializeSeatsRunNoUniqueKey(p) ==
  /\ pc[p] = "is_run"
  /\ LET f == req[p].flight_id
         layouts == generateSeatLayouts(calculateSeatDistribution(aircraft.model, aircraft.capacity),
                                        aircraft.model)
     IN  IF ~flights[f].exists
         THEN /\ Finish(p, ErrForeignKey)
              /\ UNCHANGED pools
         ELSE /\ pools' = [k \in PoolKeys |->
                             IF k[1] = f THEN Row(layouts[k[2]], <<>>) ELSE pools[k]]
              /\ Finish(p, Ok)
  /\ UNCHANGED <<rowLock, tickets, nextTicketId, req, started, flights, aircraft>>

\* controller line 851: the model's transaction; an INSERT is rejected by the
\* foreign key on flight_id or by the unique key (flight_id, class), and the
\* transaction is rolled back
InitializeSeatsRun(p) ==
  /\ pc[p] = "is_run"
  /\ LET f == req[p].flight_id
         layouts == generateSeatLayouts(calculateSeatDistribution(aircraft.model, aircraft.capacity),
                                        aircraft.model)
     IN  IF ~flights[f].exists
         THEN /\ Finish(p, ErrForeignKey)
              /\ UNCHANGED pools
         ELSE IF \E c \in Classes : pools[<<f, c>>].exists
         THEN /\ Finish(p, ErrDuplicate)
              /\ UNCHANGED pools
         ELSE /\ pools' = [k \in PoolKeys |->
                             IF k[1] = f THEN Row(layouts[k[2]], <<>>) ELSE pools[k]]
              /\ Finish(p, Ok)
  /\ UNCHANGED <<rowLock, tickets, nextTicketId, req, started, flights, aircraft>>

\* ------------------------------------------------ deleteFlight (controller)
\* controller lines 146-156: the flight is looked up with its ticket count
DeleteFlightRequest(p, f) ==
  /\ CanStart(p)
  /\ started' = started + 1
  /\ req' = [req EXCEPT ![p] = [NoReq EXCEPT !.op = "deleteFlight", !.flight_id = f]]
  /\ IF ~flights[f].exists THEN Finish(p, ErrFlightNotFound)
     ELSE IF \E t \in tickets : t.flight_id = f THEN Finish(p, ErrFlightHasTickets)
     ELSE Goto(p, "df_delete", NoLoc)
  /\ UNCHANGED <<pools, rowLock, tickets, nextTicketId, flights, aircraft>>

\* rows of tickets or flight_seats that reference the flight: the foreign
\* keys have no ON DELETE action, so they restrict the DELETE
Referenced(f) ==
  \/ \E t \in tickets : t.flight_id = f
  \/ \E c \in Classes : pools[<<f, c>>].exists

\* controller line 158, model lines 168-171: DELETE FROM flights
DeleteFlightDelete(p) ==
  /\ pc[p] = "df_delete"
  /\ LET f == req[p].flight_id
     IN  IF Referenced(f)
         THEN /\ Finish(p, ErrRowReferenced)
              /\ UNCHANGED flights
         ELSE /\ flights' = [flights EXCEPT ![f].exists = FALSE]
              /\ Finish(p, Ok)
  /\ UNCHANGED <<pools, rowLock, tickets, nextTicketId, req, started, aircraft>>

\* ----------------------------------------------------------------- inputs
\* the requests a booking can carry
CreateInputs ==
  [user_id : {1, UnknownUser}, flight_id : {MainFlight},
   seat_number : {<<2, 1>>, <<3, 1>>},
   class : {"economy", "woman_only"}, price : {NoPrice, 150}]

UpdateInputs ==
  [seat_number : {NoSeat, <<2, 1>>, <<3, 2>>},
   class : {"", "economy", "woman_only"}, price : {NoPrice}]

\* ticket ids a request can name: every id handed out so far and the next one
TicketIds == 1..nextTicketId

Count(n) == [num |-> n, den |-> 1]
Configurations ==
  { [first |-> Absent, business |-> Count(2), economy |-> [num |-> 1, den |-> 2], woman_only |-> Absent] }

\* ----------------------------------------------------------- specification
BookSeatStep == \E p \in Procs : BookSeatLock(p) \/ BookSeatCommit(p)
ReleaseSeatStep == \E p \in Procs : ReleaseSeatLock(p) \/ ReleaseSeatCommit(p)
CreateTicketStep ==
  \E p \in Procs : (\E d \in CreateInputs : CreateTicketBegin(p, d)) \/ CreateTicketInsert(p)
UpdateTicketStep ==
  \E p \in Procs : \/ \E id \in TicketIds, d \in UpdateInputs : UpdateTicketRead(p, id, d)
                   \/ UpdateTicketCheck(p)
                   \/ UpdateTicketWrite(p)
DeleteTicketStep ==
  \E p \in Procs : (\E id \in TicketIds : DeleteTicketRead(p, id)) \/ DeleteTicketDelete(p)
ReconfigureStep ==
  \E p \in Procs : \/ \E cfg \in Configurations : ReconfigureCheck(p, MainFlight, cfg)
                   \/ ReconfigureReplace(p)
InitializeStep == \E p \in Procs : InitializeFlightSeats(p, MainFlight)

Next ==
  \/ InitializeStep
  \/ BookSeatStep
  \/ ReleaseSeatStep
  \/ CreateTicketStep
  \/ UpdateTicketStep
  \/ DeleteTicketStep
  \/ ReconfigureStep

Spec == Init /\ [][Next]_vars


\* ---- bookings only, on freshly initialized seats, one request per slot ----
BookInputs ==
  [user_id : Users \cup {UnknownUser}, flight_id : {MainFlight},
   seat_number : {<<2, 1>>, <<3, 1>>},
   class : {"economy", "woman_only"}, price : {NoPrice, 150}]

InitBook == Init /\ pools = InitializedPools

BookRequest == \E p \in Procs : pc[p] = "idle" /\ \E d \in BookInputs : CreateTicketBegin(p, d)
BookProgress == \E p \in Procs : BookSeatLock(p) \/ BookSeatCommit(p) \/ CreateTicketInsert(p)

NextBook ==
  \/ BookRequest
  \/ BookProgress

SpecBook == InitBook /\ [][NextBook]_vars


\* ---- the HTTP handlers for booking, seat initialization and flight deletion,
\* ---- on two flights
\* bodies of POST /api/tickets: a seat with its class and no price, for the
\* authenticated user
ApiSeats == {[seat_number |-> <<2, 1>>, class |-> "woman_only"],
             [seat_number |-> <<3, 1>>, class |-> "economy"]}
ApiBookInputs ==
  {[auth |-> 1, user_id |-> 0, flight_id |-> f, seat_number |-> x.seat_number,
    class |-> x.class, price |-> NoPrice] : f \in Flights, x \in ApiSeats}

\* flight 1 is scheduled and has its seats initialized, flight 2 has any
\* status and no seats yet
InitApi ==
  /\ pools = [k \in PoolKeys |-> IF k[1] = MainFlight THEN InitializedPools[k] ELSE NoRow]
  /\ rowLock = [k \in PoolKeys |-> 0]
  /\ tickets = {}
  /\ nextTicketId = 1
  /\ pc = [p \in Procs |-> "idle"]
  /\ req = [p \in Procs |-> NoReq]
  /\ loc = [p \in Procs |-> NoLoc]
  /\ result = [p \in Procs |-> ""]
  /\ started = 0
  /\ flights \in {[ScheduledFlights EXCEPT ![2].status = st] : st \in Statuses}
  /\ aircraft = [model |-> AircraftModel, capacity |-> Capacity]

BookTicketStep ==
  \E p \in Procs : \/ \E d \in ApiBookInputs : BookTicketRequest(p, d)
                   \/ BookTicketSeat(p)
                   \/ BookTicketCreate(p)
TicketInsertStep == \E p \in Procs : CreateTicketInsert(p)
InitializeSeatsStep ==
  \E p \in Procs : \/ \E f \in Flights : InitializeSeatsRequest(p, f)
                   \/ InitializeSeatsCheck(p)
                   \/ InitializeSeatsRun(p)
DeleteFlightStep ==
  \E p \in Procs : (\E f \in Flights : DeleteFlightRequest(p, f)) \/ DeleteFlightDelete(p)

NextApi ==
  \/ BookTicketStep
  \/ BookSeatStep
  \/ TicketInsertStep
  \/ InitializeSeatsStep
  \/ DeleteFlightStep

SpecApi == InitApi /\ [][NextApi]_vars


\* ---- bookings and cancellations, one at a time, on the freshly generated
\* ---- seats of one flight, for several aircraft
TripAircraft ==
  [model : {"A320", "A330", "CRJ"}, capacity : {Capacity, 2 * Capacity}]

\* the layouts initializeFlightSeats generates, per aircraft
LayoutsOf ==
  [a \in TripAircraft |->
     generateSeatLayouts(calculateSeatDistribution(a.model, a.capacity), a.model)]
\* those of the aircraft of the flights
GeneratedLayouts == LayoutsOf[aircraft]

InitTrip ==
  /\ aircraft \in TripAircraft
  /\ pools = [k \in PoolKeys |-> IF k[1] = MainFlight THEN Row(GeneratedLayouts[k[2]], <<>>)
                                  ELSE NoRow]
  /\ rowLock = [k \in PoolKeys |-> 0]
  /\ tickets = {}
  /\ nextTicketId = 1
  /\ pc = [p \in Procs |-> "idle"]
  /\ req = [p \in Procs |-> NoReq]
  /\ loc = [p \in Procs |-> NoLoc]
  /\ result = [p \in Procs |-> ""]
  /\ started = 0
  /\ flights = ScheduledFlights

\* the seats asked for: the first, the second and the last economy seat and
\* the first seat of every other class
TripSeats(c) ==
  LET g == GeneratedLayouts[c]
  IN  {g[i] : i \in {j \in 1..Len(g) : j = 1 \/ (c = "economy" /\ j \in {2, Len(g)})}}

\* the requests come one after the other
TripIdle == \A q \in Procs : Free(q)

\* a booking of a generated seat in its class, by a passenger who may book
\* every class
TripBook ==
  \E p \in Procs :
    \/ /\ TripIdle
       /\ \E c \in Classes : \E s \in TripSeats(c) :
            CreateTicketBegin(p, [user_id |-> 5, flight_id |-> MainFlight, seat_number |-> s,
                                  class |-> c, price |-> 150])
    \/ CreateTicketInsert(p)
TripCancel ==
  \E p \in Procs : \/ TripIdle /\ \E id \in TicketIds : DeleteTicketRead(p, id)
                   \/ DeleteTicketDelete(p)

NextTrip ==
  \/ TripBook
  \/ TripCancel
  \/ BookSeatStep
  \/ ReleaseSeatStep

SpecTrip == InitTrip /\ [][NextTrip]_vars


\* ---- seat holds, their releases and bookings by two users, on the
\* ---- initialized seats of the main flight
HoldUsers == {1, 5}
HoldInputs ==
  {[auth |-> u, user_id |-> 0, flight_id |-> MainFlight, seat_number |-> x.seat_number,
    class |-> x.class, price |-> NoPrice] : u \in HoldUsers, x \in ApiSeats}

HoldStep ==
  \E p \in Procs : (\E d \in HoldInputs : HoldSeatRequest(p, d)) \/ HoldSeatAnswer(p)
ReleaseHeldStep == \E p \in Procs : \E d \in HoldInputs : ReleaseHeldSeat(p, d)
HoldBookStep ==
  \E p \in Procs : \/ \E d \in HoldInputs : BookTicketRequest(p, d)
                   \/ BookTicketSeat(p)
                   \/ BookTicketCreate(p)

NextHold ==
  \/ HoldStep
  \/ ReleaseHeldStep
  \/ HoldBookStep
  \/ BookSeatStep
  \/ TicketInsertStep

SpecHold == InitBook /\ [][NextHold]_vars

\* ---- the protected routes, with every kind of Authorization header
Tokens == [sig : {"valid", "forged", "expired"}, id : {5, UnknownUser}]
AuthHeaders ==
  {NoHeader, [scheme |-> "Bearer", token |-> NoToken]}
    \cup [scheme : {"Bearer"}, token : Tokens]
    \cup {[scheme |-> "Basic", token |-> [sig |-> "valid", id |-> 5]]}
AuthBodies ==
  {[auth |-> 0, user_id |-> 0, flight_id |-> MainFlight, seat_number |-> <<3, 1>>,
    class |-> "economy", price |-> NoPrice]}

PostTicketStep ==
  \E p \in Procs : \/ \E h \in AuthHeaders, d \in AuthBodies : PostTicket(p, h, d)
                   \/ BookTicketSeat(p)
                   \/ BookTicketCreate(p)
DeleteTicketRouteStep ==
  \E p \in Procs : \/ \E h \in AuthHeaders, id \in 1..2 : DeleteTicketRoute(p, h, id)
                   \/ DeleteTicketFlight(p)
                   \/ DeleteTicketCall(p)
                   \/ DeleteTicketDelete(p)
GetMeStep == \E p \in Procs : \E h \in AuthHeaders : GetMe(p, h)

NextAuth ==
  \/ PostTicketStep
  \/ DeleteTicketRouteStep
  \/ GetMeStep
  \/ BookSeatStep
  \/ ReleaseSeatStep
  \/ TicketInsertStep

SpecAuth == InitBook /\ [][NextAuth]_vars

\* ---- bookings and class changes by passengers of every gender, on the
\* ---- initialized seats of the main flight
EligibilityCreateInputs ==
  {[user_id |-> u, flight_id |-> MainFlight, seat_number |-> x.seat_number, class |-> x.class,
    price |-> 150] : u \in {1, 2, 3}, x \in ApiSeats}
EligibilityUpdateInputs ==
  {[seat_number |-> <<2, 1>>, class |-> "woman_only", price |-> NoPrice],
   [seat_number |-> <<2, 2>>, class |-> "woman_only", price |-> NoPrice],
   [seat_number |-> <<3, 2>>, class |-> "economy", price |-> NoPrice],
   [seat_number |-> <<3, 2>>, class |-> "", price |-> NoPrice]}

EligibilityCreate ==
  \E p \in Procs : (\E d \in EligibilityCreateInputs : CreateTicketBegin(p, d))
                   \/ CreateTicketInsert(p)
EligibilityUpdate ==
  \E p \in Procs : \/ \E id \in TicketIds, d \in EligibilityUpdateInputs : UpdateTicketRead(p, id, d)
                   \/ UpdateTicketCheck(p)
                   \/ UpdateTicketWrite(p)

NextEligibility ==
  \/ EligibilityCreate
  \/ EligibilityUpdate
  \/ BookSeatStep
  \/ ReleaseSeatStep

SpecEligibility == InitBook /\ [][NextEligibility]_vars

\* ---- valid bookings, seat changes and cancellations of two economy seats
RaceCreateInputs ==
  {[user_id |-> u, flight_id |-> MainFlight, seat_number |-> x, class |-> "economy",
    price |-> 150] : u \in {1, 5}, x \in {<<3, 1>>, <<3, 2>>}}
RaceUpdateInputs ==
  {[seat_number |-> x, class |-> "", price |-> NoPrice] : x \in {<<3, 1>>, <<3, 2>>}}

RaceCreate ==
  \E p \in Procs : (\E d \in RaceCreateInputs : CreateTicketBegin(p, d)) \/ CreateTicketInsert(p)
RaceUpdate ==
  \E p \in Procs : \/ \E id \in TicketIds, d \in RaceUpdateInputs : UpdateTicketRead(p, id, d)
                   \/ UpdateTicketCheck(p)
                   \/ UpdateTicketWrite(p)

NextRace ==
  \/ RaceCreate
  \/ RaceUpdate
  \/ DeleteTicketStep
  \/ BookSeatStep
  \/ ReleaseSeatStep

SpecRace == InitBook /\ [][NextRace]_vars

\* ---- bookings through the connection pool, with as many request slots as
\* ---- the pool has connections
\* connectionLimit of mysql.createPool, scaled to the number of slots;
\* waitForConnections with queueLimit 0: a caller waits until one is free
ConnectionLimit == NumProcs

\* connections checked out: one per createTicket from its getConnection to
\* its release, one per bookSeat from its getConnection to its release
ConnectionsInUse ==
  Cardinality({p \in Procs : pc[p] \in {"ct_avail", "bs_lock", "bs_write", "ct_insert"}})
    + Cardinality({p \in Procs : pc[p] = "bs_write"})
ConnectionFree == ConnectionsInUse < ConnectionLimit

PoolInputs ==
  {[user_id |-> 5, flight_id |-> MainFlight, seat_number |-> x, class |-> "economy",
    price |-> 150] : x \in {<<3, 1>>, <<3, 2>>, <<3, 3>>}}

\* createTicket is called and asks the pool for its connection
PoolArrive(p, d) ==
  /\ CanStart(p)
  /\ started' = started + 1
  /\ req' = [req EXCEPT ![p] = [NoReq EXCEPT !.op = "createTicket", !.user_id = d.user_id,
               !.flight_id = d.flight_id, !.seat_number = d.seat_number, !.class = d.class,
               !.price = d.price]]
  /\ Goto(p, "ct_conn", NoLoc)
  /\ UNCHANGED <<pools, rowLock, tickets, nextTicketId, flights, aircraft>>

\* createTicket lines 295-298: pool.getConnection, beginTransaction
PoolGetConnection(p) ==
  /\ pc[p] = "ct_conn"
  /\ ConnectionFree
  /\ Goto(p, "ct_avail", NoLoc)
  /\ UNCHANGED <<pools, rowLock, tickets, nextTicketId, req, started, flights, aircraft>>

\* createTicket lines 309-353: isSeatAvailable runs pool.query, which takes a
\* free connection for the query; the other checks use the held connection
PoolAvailability(p) ==
  /\ pc[p] = "ct_avail"
  /\ ConnectionFree
  /\ CreateTicketChecks(p, req[p])
  /\ UNCHANGED <<pools, rowLock, tickets, nextTicketId, req, started, flights, aircraft>>

\* bookSeat lines 145-160: pool.getConnection, then the locking read
PoolBookSeatLock(p) ==
  /\ ConnectionFree
  /\ BookSeatLock(p)

PoolProgress(p) ==
  \/ PoolGetConnection(p)
  \/ PoolAvailability(p)
  \/ PoolBookSeatLock(p)
  \/ BookSeatCommit(p)
  \/ CreateTicketInsert(p)

PoolRequest == \E p \in Procs : \E d \in PoolInputs : PoolArrive(p, d)
PoolStep == \E p \in Procs : PoolProgress(p)

NextPool ==
  \/ PoolRequest
  \/ PoolStep

\* every request whose next step is possible takes it
SpecPool == InitBook /\ [][NextPool]_vars /\ \A p \in Procs : WF_vars(PoolProgress(p))

\* ---- bookSeat and releaseSeat called directly, on a flight with seats
\* ---- (one of them booked) and a flight without pool rows
SeatCallInputs ==
  {[flight_id |-> x[1], class |-> "economy", seat_number |-> x[2]] :
     x \in {<<MainFlight, <<3, 1>>>>, <<MainFlight, <<3, 2>>>>,
            <<MainFlight, <<Capacity + 1, 1>>>>, <<2, <<3, 1>>>>}}

InitSeat ==
  /\ pools = [k \in PoolKeys |->
                IF k[1] # MainFlight THEN NoRow
                ELSE IF k[2] = "economy"
                THEN BookedRow(InitializedPools[k].available, <<>>, <<3, 1>>)
                ELSE InitializedPools[k]]
  /\ rowLock = [k \in PoolKeys |-> 0]
  /\ tickets = {}
  /\ nextTicketId = 1
  /\ pc = [p \in Procs |-> "idle"]
  /\ req = [p \in Procs |-> NoReq]
  /\ loc = [p \in Procs |-> NoLoc]
  /\ result = [p \in Procs |-> ""]
  /\ started = 0
  /\ flights = ScheduledFlights
  /\ aircraft = [model |-> AircraftModel, capacity |-> Capacity]

\* FlightSeats.bookSeat(flightId, seatClass, seatNumber)
BookSeatCall(p, d) ==
  /\ CanStart(p)
  /\ started' = started + 1
  /\ req' = [req EXCEPT ![p] = [NoReq EXCEPT !.op = "bookSeat", !.flight_id = d.flight_id,
                                              !.class = d.class, !.seat_number = d.seat_number]]
  /\ Goto(p, "bs_lock", NoLoc)
  /\ UNCHANGED <<pools, rowLock, tickets, nextTicketId, flights, aircraft>>

\* FlightSeats.releaseSeat(flightId, seatClass, seatNumber)
ReleaseSeatCall(p, d) ==
  /\ CanStart(p)
  /\ started' = started + 1
  /\ req' = [req EXCEPT ![p] = [NoReq EXCEPT !.op = "releaseSeat", !.flight_id = d.flight_id,
                                              !.class = d.class, !.seat_number = d.seat_number]]
  /\ Goto(p, "rs_lock", [NoLoc EXCEPT !.cur = [NoTicket EXCEPT !.flight_id = d.flight_id,
                                                 !.class = d.class, !.seat_number = d.seat_number]])
  /\ UNCHANGED <<pools, rowLock, tickets, nextTicketId, flights, aircraft>>

SeatCallStep ==
  \E p \in Procs : \E d \in SeatCallInputs : BookSeatCall(p, d) \/ ReleaseSeatCall(p, d)

NextSeat ==
  \/ SeatCallStep
  \/ BookSeatStep
  \/ ReleaseSeatStep

SpecSeat == InitSeat /\ [][NextSeat]_vars

\* ---- bookings through the handler while flights are canceled
CancelBookInputs ==
  {[auth |-> 5, user_id |-> 0, flight_id |-> f, seat_number |-> x, class |-> "economy",
    price |-> 150] : f \in Flights, x \in {<<3, 1>>, <<3, 2>>}}

CancelBookStep ==
  \E p \in Procs : \/ \E d \in CancelBookInputs : BookTicketRequest(p, d)
                   \/ BookTicketSeat(p)
                   \/ BookTicketCreate(p)
CancelFlightStep ==
  \E p \in Procs : (\E f \in Flights : CancelFlightRequest(p, f)) \/ CancelFlightUpdate(p)

NextCancel ==
  \/ CancelBookStep
  \/ CancelFlightStep
  \/ BookSeatStep
  \/ TicketInsertStep

SpecCancel == InitBook /\ [][NextCancel]_vars

\* ---- concurrent bookings of different seats, one request per slot, on the
\* ---- initialized seats of two flights
PairInputs ==
  {[user_id |-> 5, flight_id |-> x[1], seat_number |-> x[2], class |-> x[3], price |-> 150] :
     x \in {<<1, <<3, 1>>, "economy">>, <<1, <<3, 2>>, "economy">>,
            <<1, <<2, 1>>, "woman_only">>, <<2, <<3, 1>>, "economy">>}}

PairRequest == \E p \in Procs : pc[p] = "idle" /\ \E d \in PairInputs : CreateTicketBegin(p, d)
PairProgress == \E p \in Procs : BookSeatLock(p) \/ BookSeatCommit(p) \/ CreateTicketInsert(p)

NextPair ==
  \/ PairRequest
  \/ PairProgress

SpecPair == InitBook /\ [][NextPair]_vars


\* ---- seat initialization and reconfiguration, one request at a time, for
\* ---- aircraft of every model family and several capacities
LayoutModels == {"A320", "737", "A330", "777", "787", "CRJ", "E190", "E175", "ATR"}
LayoutCapacities == (1..Capacity) \cup {15, 104, 180}
LayoutAircraft == [model : LayoutModels, capacity : LayoutCapacities]

\* request bodies of the reconfiguration: fractions, absolute counts, both,
\* and counts whose sum exceeds every capacity
LayoutConfigurations ==
  Configurations \cup
  { [first |-> Absent, business |-> [num |-> 3, den |-> 10], economy |-> [num |-> 7, den |-> 10],
     woman_only |-> Absent],
    [first |-> Absent, business |-> Absent, economy |-> Count(22), woman_only |-> Absent],
    [first |-> Count(4), business |-> [num |-> 9, den |-> 2], economy |-> Count(200),
     woman_only |-> Count(0)] }

InitLayout ==
  /\ aircraft \in LayoutAircraft
  /\ pools = [k \in PoolKeys |-> NoRow]
  /\ rowLock = [k \in PoolKeys |-> 0]
  /\ tickets = {}
  /\ nextTicketId = 1
  /\ pc = [p \in Procs |-> "idle"]
  /\ req = [p \in Procs |-> NoReq]
  /\ loc = [p \in Procs |-> NoLoc]
  /\ result = [p \in Procs |-> ""]
  /\ started = 0
  /\ flights = ScheduledFlights

LayoutInitialize ==
  \E p \in Procs : TripIdle /\ InitializeFlightSeats(p, MainFlight)
LayoutReconfigure ==
  \E p \in Procs : \/ TripIdle /\ \E cfg \in LayoutConfigurations : ReconfigureCheck(p, MainFlight, cfg)
                   \/ ReconfigureReplace(p)

NextLayout ==
  \/ LayoutInitialize
  \/ LayoutReconfigure

SpecLayout == InitLayout /\ [][NextLayout]_vars


\* ================================================================== claims
Avail(f, c) == Range(pools[<<f, c>>].available)
Booked(f, c) == Range(pools[<<f, c>>].booked)
TicketsFor(f, s) == {t \in tickets : t.flight_id = f /\ t.seat_number = s}

\* a booking that would succeed if it were the only request: known user,
\* eligible for the class, and a price that can be stored
ValidBooking(r) ==
  /\ r.user_id \in Users
  /\ r.class = "woman_only" => UserGender[r.user_id] \in {"female", "Female", "FEMALE"}
  /\ r.price # NaN

\* the booking requests for seat s of pool (f, c)
BookingsOf(f, c, s) ==
  {p \in Procs : /\ req[p].op = "createTicket" /\ req[p].flight_id = f
                 /\ req[p].class = c /\ req[p].seat_number = s}

\* C1: of N >= 2 valid bookings of the same available seat that ran
\* concurrently, exactly one has succeeded once all have returned, every other
\* one failed with 'Seat is not available', and the seat is exactly once in
\* booked, not in available, with exactly one ticket.
C1_ExactlyOneBooking ==
  \A f \in Flights, c \in Classes :
    \A s \in Range(InitializedPools[<<f, c>>].available) :
      LET R == BookingsOf(f, c, s)
      IN  (/\ Cardinality(R) >= 2
           /\ \A p \in R : pc[p] = "done" /\ ValidBooking(req[p]))
          => /\ Cardinality({p \in R : result[p] = Ok}) = 1
             /\ \A p \in R : result[p] \in {Ok, ErrSeatNotAvailable}
             /\ Occurrences(pools[<<f, c>>].booked, s) = 1
             /\ s \notin Avail(f, c)
             /\ Cardinality(TicketsFor(f, s)) = 1

\* C1 witness: one booking of a seat has succeeded while a concurrent valid
\* booking of the same seat, past its availability read, has been turned away
C1_Witness ==
  \E p, q \in Procs :
    /\ p # q
    /\ q \in BookingsOf(req[p].flight_id, req[p].class, req[p].seat_number)
    /\ req[p].op = "createTicket" /\ pc[p] = "done" /\ result[p] = Ok
    /\ ValidBooking(req[q]) /\ pc[q] = "done" /\ result[q] = ErrSeatNotAvailable
    /\ nextTicketId = 2

\* a step in which request p is issued as operation op: p is the slot that
\* takes the next request, and a request is taken
Issued(p, op) == CanStart(p) /\ started' = started + 1 /\ req'[p].op = op

\* C10: a woman_only booking of an available seat for an existing passenger
\* whose gender is missing or not 'female' (any letter case) fails with the
\* woman-only error and changes no pool and no ticket; with gender 'female'
\* in any letter case it passes the check and goes on to book the seat.
C10_WomanOnlyCheck ==
  [][\A p \in Procs :
       (/\ Issued(p, "createTicket")
        /\ req'[p].class = "woman_only"
        /\ req'[p].user_id \in Users
        /\ req'[p].seat_number \in Avail(req'[p].flight_id, "woman_only"))
       => IF UserGender[req'[p].user_id] \in {"female", "Female", "FEMALE"}
          THEN pc'[p] = "bs_lock"
          ELSE /\ pc'[p] = "done"
               /\ result'[p] = ErrWomanOnly
               /\ pools' = pools
               /\ tickets' = tickets]_vars

\* C10 witness: passengers with gender NULL and with gender 'Female' have
\* both asked for the woman_only seat; the first was refused, the second booked
C10_Witness ==
  \E p, q \in Procs :
    /\ req[p].op = "createTicket" /\ req[p].class = "woman_only" /\ req[p].user_id \in Users
    /\ UserGender[req[p].user_id] = NULL /\ result[p] = ErrWomanOnly /\ pc[p] = "done"
    /\ req[q].op = "createTicket" /\ req[q].class = "woman_only" /\ req[q].user_id \in Users
    /\ UserGender[req[q].user_id] = "Female" /\ result[q] = Ok /\ pc[q] = "done"


\* C2: a createTicket whose ticket INSERT is rejected (duplicate
\* (flight_id, seat_number) key, unknown user_id) after bookSeat has
\* returned leaves its seat in available and not in booked, and no ticket
\* row is created.
C2_FailedBookingRolledBack ==
  [][\A p \in Procs :
       (pc[p] = "ct_insert" /\ pc'[p] = "done" /\ result'[p] \in {ErrDuplicate, ErrForeignKey})
       => /\ req[p].seat_number \in Range(pools'[<<req[p].flight_id, req[p].class>>].available)
          /\ req[p].seat_number \notin Range(pools'[<<req[p].flight_id, req[p].class>>].booked)
          /\ tickets' = tickets]_vars

\* C3: every ticket row's seat is in booked_seats of the pool of the
\* ticket's flight and class.
C3_TicketSeatIsBooked ==
  \A t \in tickets : t.seat_number \in Booked(t.flight_id, t.class)

\* C4: when bookSeat for the new seat fails in an updateTicket, after
\* releaseSeat for the old seat has returned, and the ticket row is still as
\* it was read, the ticket's seat is still in booked of its pool.
C4_FailedUpdateKeepsSeat ==
  [][\A p \in Procs :
       (/\ req[p].op = "updateTicket" /\ pc[p] = "bs_lock"
        /\ pc'[p] = "done" /\ result'[p] = ErrSeatNotAvailable
        /\ loc[p].cur \in tickets')
       => loc[p].cur.seat_number
            \in Range(pools'[<<loc[p].cur.flight_id, loc[p].cur.class>>].booked)]_vars

\* C5: the available and booked lists of a pool have no seat in common.
C5_AvailableBookedDisjoint ==
  \A k \in PoolKeys : Range(pools[k].available) \cap Range(pools[k].booked) = {}

\* C5 witness: a pool that went through bookings and a release and still
\* holds a booked seat
C5_Witness ==
  /\ \E p \in Procs : req[p].op = "deleteTicket" /\ pc[p] = "done" /\ result[p] = Ok
  /\ \E k \in PoolKeys : pools[k].booked # <<>>
  /\ tickets # {}

SeatCount(row) == Len(row.available) + Len(row.booked)
SeatUnion(row) == Range(row.available) \cup Range(row.booked)
\* the step commits a reconfiguration or an initialization
LayoutStep ==
  \/ \E p \in Procs : pc[p] = "rc_replace" /\ pc'[p] = "done"
  \/ \E p \in Procs : Issued(p, "initializeFlightSeats")

\* C6: |available| + |booked| and available \cup booked of every pool are the
\* same before and after every step that is not the commit of a
\* reconfiguration (or the initialization that creates the pool).
C6_SeatsConserved ==
  [][LayoutStep \/ \A k \in PoolKeys :
       /\ SeatCount(pools'[k]) = SeatCount(pools[k])
       /\ SeatUnion(pools'[k]) = SeatUnion(pools[k])]_vars

\* C6 witness: a seat change has moved a ticket from one seat to another
C6_Witness ==
  \E p \in Procs, t \in tickets :
    /\ req[p].op = "updateTicket" /\ pc[p] = "done" /\ result[p] = Ok
    /\ t.ticket_id = req[p].ticket_id /\ t.seat_number = <<3, 2>>
    /\ <<3, 1>> \in Avail(t.flight_id, "economy")
    /\ <<3, 2>> \in Booked(t.flight_id, "economy")

\* C7: a reconfiguration that takes effect leaves every seat that a ticket
\* holds booked in the booked set of its pool.
C7_ReconfigureKeepsReservations ==
  [][\A p \in Procs :
       (pc[p] = "rc_replace" /\ pc'[p] = "done")
       => \A t \in tickets :
            (t.flight_id = req[p].flight_id /\ t.seat_number \in Booked(t.flight_id, t.class))
            => t.seat_number \in Range(pools'[<<t.flight_id, t.class>>].booked)]_vars

\* C8: reconfigureFlightSeats called on a flight with a non-empty booked
\* list fails with 'Cannot reconfigure flight with existing bookings' and
\* leaves every pool row as it was.
C8_ReconfigureBlocked ==
  [][\A p \in Procs :
       (Issued(p, "reconfigureFlightSeats") /\ HasBookings(req'[p].flight_id))
       => /\ pc'[p] = "done"
          /\ result'[p] = ErrReconfigure
          /\ pools' = pools]_vars

\* C8 witness: a reconfiguration was refused while a seat of the flight is booked
C8_Witness ==
  \E p \in Procs :
    /\ req[p].op = "reconfigureFlightSeats" /\ pc[p] = "done" /\ result[p] = ErrReconfigure
    /\ HasBookings(req[p].flight_id)

\* C9: no seat is in available while a ticket row for it exists.
C9_NoReleasedSeatWithTicket ==
  \A t \in tickets : t.seat_number \notin Avail(t.flight_id, t.class)

\* C11: while a booking is in progress no reader sees its seat in booked
\* before the ticket row exists: a valid booking that has not yet inserted
\* its ticket never has its seat in the committed booked list without a
\* ticket row for that seat.
C11_NoPartialBooking ==
  \A p \in Procs :
    (req[p].op = "createTicket" /\ pc[p] = "ct_insert" /\ ValidBooking(req[p]))
    => ~(/\ req[p].seat_number \in Booked(req[p].flight_id, req[p].class)
         /\ TicketsFor(req[p].flight_id, req[p].seat_number) = {})

\* some pool row of the flight exists
HasPools(f) == \E c \in Classes : pools[<<f, c>>].exists

\* C12: an initialization that reaches its seat-map check or its INSERTs on
\* a flight that already has pool rows fails and leaves every pool row as it
\* was, and at every moment a flight has either all four class rows or none
\* (the rows are keyed by (flight, class), so there is at most one per class).
C12_InitializeOnce ==
  /\ [][\A p \in Procs :
          (/\ pc[p] \in {"is_check", "is_run"}
           /\ pc'[p] # pc[p]
           /\ HasPools(req[p].flight_id))
          => /\ pc'[p] = "done"
             /\ result'[p] \in {ErrAlreadyInitialized, ErrDuplicate}
             /\ pools' = pools]_vars
  /\ [](\A f \in Flights : HasPools(f) => \A c \in Classes : pools[<<f, c>>].exists)

\* C12 witness: two initializations of one flight both passed the seat-map
\* check; one inserted the rows, the other was rejected by the unique key
C12_Witness ==
  \E p, q \in Procs :
    /\ p # q
    /\ req[p].op = "initializeSeats" /\ req[q].op = "initializeSeats"
    /\ req[p].flight_id = req[q].flight_id
    /\ pc[p] = "done" /\ result[p] = Ok
    /\ pc[q] = "done" /\ result[q] = ErrDuplicate
    /\ HasPools(req[p].flight_id)

\* base_price times the multiplier column of the flights row for class c
StoredPrice(f, c) ==
  LET column == CASE c = "first"      -> "first_class_multiplier"
                  [] c = "business"   -> "business_class_multiplier"
                  [] c = "economy"    -> "economy_class_multiplier"
                  [] c = "woman_only" -> "woman_only_multiplier"
  IN  (FlightRows[f].base_price * FlightRows[f][column]) \div 100

\* C13: a ticket booked through the booking handler without a price in the
\* request carries base_price times the multiplier stored on the flight
\* record for the ticket's class.
C13_PriceFromFlightRecord ==
  \A p \in Procs, t \in tickets :
    (/\ req[p].op = "bookTicket" /\ req[p].body_price = NoPrice
     /\ pc[p] = "done" /\ result[p] = Ok /\ req[p].ticket_id = t.ticket_id)
    => t.price = StoredPrice(t.flight_id, t.class)

\* C14: the seat move of a booking of seat s in pool (f, c) takes s out of
\* available and puts it into booked of that pool and changes no other pool
\* and no ticket; the ticket insert of a successful booking adds exactly one
\* ticket, with flight f, class c and seat s, changes no pool and no other
\* ticket, and s is then in booked and not in available of (f, c).
C14_BookingFrame ==
  [][\A p \in Procs :
       LET f == req[p].flight_id
           c == req[p].class
           s == req[p].seat_number
       IN  /\ (req[p].op = "bookTicket" /\ pc[p] = "bs_write" /\ pc'[p] = "ct_insert")
              => /\ s \in Avail(f, c)
                 /\ Range(pools'[<<f, c>>].available) = Avail(f, c) \ {s}
                 /\ Range(pools'[<<f, c>>].booked) = Booked(f, c) \cup {s}
                 /\ \A k \in PoolKeys : k # <<f, c>> => pools'[k] = pools[k]
                 /\ tickets' = tickets
           /\ (/\ req[p].op = "bookTicket" /\ pc[p] = "ct_insert"
               /\ pc'[p] = "done" /\ result'[p] = Ok)
              => /\ \E t \in tickets' \ tickets :
                      /\ tickets' = tickets \cup {t}
                      /\ t.flight_id = f /\ t.class = c /\ t.seat_number = s
                 /\ pools' = pools
                 /\ s \in Booked(f, c) /\ s \notin Avail(f, c)]_vars

\* C14 witness: a booking on flight 2 has succeeded while a seat of flight 1
\* is booked: two tickets, one per flight
C14_Witness ==
  /\ \E p \in Procs : /\ req[p].op = "bookTicket" /\ req[p].flight_id = 2
                       /\ pc[p] = "done" /\ result[p] = Ok
  /\ HasBookings(1) /\ HasBookings(2)
  /\ \E t, u \in tickets : t.flight_id = 1 /\ u.flight_id = 2

\* the elements of s that are not in the set x, in the order of s
RECURSIVE Without(_, _)
Without(s, x) ==
  IF s = <<>> THEN <<>>
  ELSE IF Head(s) \in x THEN Without(Tail(s), x)
  ELSE <<Head(s)>> \o Without(Tail(s), x)

\* C15: on the pools produced by the layout generator, bookSeat(s) followed
\* by releaseSeat(s) gives back the pool row it started from, available in
\* the generated order; so after any bookings and releases available is the
\* generated list without the booked seats, in the generated order.
C15_BookReleaseRoundTrip ==
  \A c \in Classes :
    LET row == pools[<<MainFlight, c>>]
    IN  /\ row.available = Without(GeneratedLayouts[c], Range(row.booked))
        /\ \A s \in Range(row.available) :
             LET b == BookedRow(row.available, row.booked, s)
             IN  ReleasedRow(b.available, b.booked, s) = row

\* C15 witness: two seats were booked and the first one released again, with
\* the ticket of the last economy seat left, and every other pool is as
\* generated
C15_Witness ==
  /\ \E p \in Procs : req[p].op = "deleteTicket" /\ pc[p] = "done" /\ result[p] = Ok
                       /\ req[p].ticket_id = 1
  /\ nextTicketId = 3
  /\ \E t \in tickets :
       /\ t.ticket_id = 2
       /\ LET g == GeneratedLayouts["economy"]
          IN  /\ t.seat_number = g[Len(g)]
              /\ pools[<<MainFlight, "economy">>] = Row(SubSeq(g, 1, Len(g) - 1), <<t.seat_number>>)
  /\ \A c \in Classes \ {"economy"} : pools[<<MainFlight, c>>] = Row(GeneratedLayouts[c], <<>>)

\* no other booking request names the seat of request p
OnlyBookingOfItsSeat(p) ==
  \A r \in Procs \ {p} :
    req[r].op = "createTicket"
    => <<req[r].flight_id, req[r].seat_number>> # <<req[p].flight_id, req[p].seat_number>>

\* C16: two bookings of different available seats that ran concurrently, in
\* the same pool or in different pools, have both succeeded once both have
\* returned, both seats are in booked and neither is in available; and a
\* booking waits for nothing but the lock on the row of its own pool.
C16_IndependentBookings ==
  /\ \A p, q \in Procs :
       (/\ p # q
        /\ req[p].op = "createTicket" /\ pc[p] = "done" /\ OnlyBookingOfItsSeat(p)
        /\ req[q].op = "createTicket" /\ pc[q] = "done" /\ OnlyBookingOfItsSeat(q))
       => /\ result[p] = Ok /\ result[q] = Ok
          /\ \A r \in {p, q} :
               /\ Occurrences(pools[<<req[r].flight_id, req[r].class>>].booked, req[r].seat_number) = 1
               /\ req[r].seat_number \notin Avail(req[r].flight_id, req[r].class)
  /\ \A p \in Procs :
       (pc[p] = "bs_lock" /\ rowLock[BookKey(p)] = 0) => ENABLED BookSeatLock(p)

\* C16 witness: two bookings of different seats of one pool have both
\* succeeded and both seats are in its booked list
C16_Witness ==
  \E p, q \in Procs :
    /\ p # q
    /\ req[p].op = "createTicket" /\ req[q].op = "createTicket"
    /\ req[p].flight_id = req[q].flight_id /\ req[p].class = req[q].class
    /\ req[p].seat_number # req[q].seat_number
    /\ pc[p] = "done" /\ result[p] = Ok
    /\ pc[q] = "done" /\ result[q] = Ok
    /\ Len(pools[<<req[p].flight_id, req[p].class>>].booked) = 2

\* C17: a booking request for a flight that does not exist or whose status
\* is 'canceled' or 'arrived' is turned away in its first step with the
\* error of the flight test, whatever the state of the seat, and changes no
\* pool and no ticket.
C17_FlightTestedFirst ==
  [][\A p \in Procs :
       Issued(p, "bookTicket")
       => LET f == req'[p].flight_id
          IN  /\ ~flights[f].exists
                 => pc'[p] = "done" /\ result'[p] = ErrFlightNotFound
              /\ (flights[f].exists /\ flights[f].status = "canceled")
                 => pc'[p] = "done" /\ result'[p] = ErrCanceled
              /\ (flights[f].exists /\ flights[f].status = "arrived")
                 => pc'[p] = "done" /\ result'[p] = ErrCompleted
              /\ (~flights[f].exists \/ flights[f].status \in {"canceled", "arrived"})
                 => pools' = pools /\ tickets' = tickets]_vars

\* C17 witness: a booking was turned away because its flight had been deleted
C17_Witness ==
  \E p \in Procs :
    /\ req[p].op = "bookTicket" /\ pc[p] = "done" /\ result[p] = ErrFlightNotFound
    /\ ~flights[req[p].flight_id].exists

\* C20: the DELETE of a flight that has pool rows and no tickets succeeds,
\* and afterwards the flight and all its pool rows are gone.
C20_PoolsDeletedWithFlight ==
  [][\A p \in Procs :
       LET f == req[p].flight_id
       IN  (/\ pc[p] = "df_delete" /\ pc'[p] = "done"
            /\ HasPools(f)
            /\ ~\E t \in tickets : t.flight_id = f)
           => /\ result'[p] = Ok
              /\ ~flights'[f].exists
              /\ \A c \in Classes : ~pools'[<<f, c>>].exists]_vars

\* the percentages of the model families (hundredths)
FamilyPercent(model) ==
  IF model \in {"A320", "737"} THEN [first |-> 8, business |-> 22, woman_only |-> 10]
  ELSE IF model \in {"A330", "777"} THEN [first |-> 10, business |-> 25, woman_only |-> 5]
  ELSE IF model \in {"CRJ", "E190"} THEN [first |-> 5, business |-> 15, woman_only |-> 5]
  ELSE [first |-> 5, business |-> 15, woman_only |-> 10]

\* the codes of all four class lists of flight f after the step
AllCodes(f) ==
  UNION {Range(pools[<<f, c>>].available) : c \in Classes}

\* C18: a seat initialization never fails on a flight without pool rows and
\* stores floor(capacity x percentage) codes for first, business and
\* woman_only with the percentages of the model family, the remainder for
\* economy, capacity codes in total and none booked; for an A320 with 180
\* seats the lists hold 14/39/18/109 codes, every code has one of six
\* letters and no row has more than six codes.
C18_DefaultDistribution ==
  [][\A p \in Procs :
       (Issued(p, "initializeFlightSeats") /\ ~HasPools(MainFlight))
       => LET pct == FamilyPercent(aircraft.model)
              cap == aircraft.capacity
              len(c) == Len(pools'[<<MainFlight, c>>].available)
              codes == UNION {Range(pools'[<<MainFlight, c>>].available) : c \in Classes}
          IN  /\ result'[p] = Ok
              /\ len("first") = (cap * pct.first) \div 100
              /\ len("business") = (cap * pct.business) \div 100
              /\ len("woman_only") = (cap * pct.woman_only) \div 100
              /\ len("economy") = cap - (len("first") + len("business") + len("woman_only"))
              /\ len("first") + len("business") + len("woman_only") + len("economy") = cap
              /\ \A c \in Classes : pools'[<<MainFlight, c>>].booked = <<>>
              /\ (aircraft.model = "A320" /\ cap = 180)
                 => /\ len("first") = 14 /\ len("business") = 39
                    /\ len("woman_only") = 18 /\ len("economy") = 109
                    /\ \A s \in codes : s[2] \in 1..6
                    /\ \A r \in {s[1] : s \in codes} :
                         Cardinality({s \in codes : s[1] = r}) <= 6]_vars

\* C18 witness: an A320 with 180 seats was initialized and holds 180 codes
C18_Witness ==
  /\ aircraft = [model |-> "A320", capacity |-> 180]
  /\ \E p \in Procs : /\ req[p].op = "initializeFlightSeats"
                      /\ pc[p] = "done" /\ result[p] = Ok
  /\ Len(pools[<<MainFlight, "economy">>].available) = 109
  /\ Cardinality(AllCodes(MainFlight)) = 180

\* the count the configuration value v asks for on an aircraft of cap seats
AskedCount(v, cap) ==
  IF v = Absent THEN 0
  ELSE IF v.num < v.den THEN (cap * v.num) \div v.den
  ELSE v.num \div v.den

\* the asked counts, scaled down when their sum exceeds the capacity
AskedDistribution(configuration, cap) ==
  LET asked == [c \in Classes |-> AskedCount(configuration[c], cap)]
      sum == asked["first"] + asked["business"] + asked["economy"] + asked["woman_only"]
  IN  IF sum > cap THEN [c \in Classes |-> (asked[c] * cap) \div sum] ELSE asked

\* C19: a reconfiguration that commits stores, for every class, exactly
\* floor(capacity x v) codes for a value v < 1, floor(v) codes for a value
\* v >= 1 and none for an absent class, each replaced by
\* floor(count x capacity / sum) when the counts sum to more than the
\* capacity, and the four lists never hold more codes than the capacity.
C19_CustomDistribution ==
  [][\A p \in Procs :
       (pc[p] = "rc_replace" /\ pc'[p] = "done" /\ result'[p] = Ok)
       => LET f == req[p].flight_id
              want == AskedDistribution(req[p].configuration, aircraft.capacity)
              len(c) == Len(pools'[<<f, c>>].available)
          IN  /\ \A c \in Classes : len(c) = want[c]
              /\ len("first") + len("business") + len("economy") + len("woman_only")
                   <= aircraft.capacity]_vars

\* the holds that were granted and not released by their user
GrantedHolds ==
  {q \in Procs :
     /\ req[q].op = "holdSeat" /\ pc[q] = "done" /\ result[q] = Ok
     /\ ~\E r \in Procs :
           /\ req[r].op = "releaseHeldSeat" /\ pc[r] = "done" /\ result[r] = Ok
           /\ req[r].auth = req[q].auth
           /\ req[r].flight_id = req[q].flight_id
           /\ req[r].seat_number = req[q].seat_number}

\* C21: while a hold granted to one user is not released, no booking request
\* that another user makes for that seat completes with a ticket.
C21_HeldSeatNotBooked ==
  [][\A p \in Procs :
       (pc[p] = "ct_insert" /\ pc'[p] = "done" /\ result'[p] = Ok)
       => ~\E q \in GrantedHolds :
             /\ req[q].flight_id = req[p].flight_id
             /\ req[q].seat_number = req[p].seat_number
             /\ req[q].auth # req[p].user_id]_vars

\* the header carries a Bearer token that verifies and names a stored user
Credentialed(h) ==
  /\ h.scheme = "Bearer"
  /\ h.token # NoToken
  /\ h.token.sig = "valid"
  /\ h.token.id \in Users

\* C22: a request to a protected route without a Bearer token, with a token
\* that does not verify, or with the token of a user that is not stored, is
\* answered with a 401 error in the step it arrives in, writes no pool row
\* and no ticket, and never takes a step of its handler.
C22_UnauthorizedRejected ==
  /\ [][\A p \in Procs :
          (CanStart(p) /\ started' = started + 1 /\ ~Credentialed(req'[p].authorization))
          => /\ pc'[p] = "done"
             /\ result'[p] \in {ErrNotAuthorized, ErrUserGone}
             /\ pools' = pools /\ tickets' = tickets /\ rowLock' = rowLock]_vars
  /\ [](\A p \in Procs :
          (req[p].op # "" /\ ~Credentialed(req[p].authorization))
          => pc[p] = "done" /\ result[p] \in {ErrNotAuthorized, ErrUserGone})

\* C22 witness: a ticket exists, and a DELETE of it with the token of a
\* user that is no longer stored was answered 'User no longer exists'
C22_Witness ==
  \E p \in Procs :
    /\ req[p].op = "deleteTicket"
    /\ req[p].authorization = [scheme |-> "Bearer", token |-> [sig |-> "valid", id |-> UnknownUser]]
    /\ pc[p] = "done" /\ result[p] = ErrUserGone
    /\ \E t \in tickets : TRUE

\* C23: a booking that has passed its availability check holds the lock on
\* the pool row of its seat at every moment until it ends, and the lock is
\* given up only in the step that ends the booking.
C23_LockHeldThroughBooking ==
  /\ [](\A p \in Procs :
          (req[p].op = "createTicket" /\ pc[p] \in {"bs_lock", "bs_write", "ct_insert"})
          => rowLock[<<req[p].flight_id, req[p].class>>] = p)
  /\ [][\A p \in Procs :
          LET k == <<req[p].flight_id, req[p].class>>
          IN  (req[p].op = "createTicket" /\ rowLock[k] = p /\ rowLock'[k] # p)
              => pc'[p] = "done"]_vars

\* C24: every ticket of class woman_only belongs to a stored user whose
\* gender is 'female' in some letter case, whether the class came from the
\* booking or from a later class change.
C24_WomanOnlyTickets ==
  \A t \in tickets :
    t.class = "woman_only"
    => t.user_id \in Users /\ ToLowerCase(UserGender[t.user_id]) = "female"

\* C24 witness: a class change to woman_only was carried out on a ticket,
\* and the ticket has that class
C24_Witness ==
  \E p \in Procs :
    /\ req[p].op = "updateTicket" /\ pc[p] = "done" /\ result[p] = Ok
    /\ req[p].class = "woman_only"
    /\ \E t \in tickets : /\ t.ticket_id = req[p].ticket_id
                          /\ t.class = "woman_only"
                          /\ t.seat_number = req[p].seat_number

\* no request is in progress
Quiescent == \A p \in Procs : pc[p] \in {"idle", "done"}

\* C25: when no request is in progress, every seat in a booked list is the
\* seat of exactly one ticket of that flight and class.
C25_BookedSeatsHaveTickets ==
  Quiescent
  => \A k \in PoolKeys : \A x \in Range(pools[k].booked) :
       Cardinality({t \in tickets : /\ t.flight_id = k[1] /\ t.class = k[2]
                                    /\ t.seat_number = x}) = 1

\* C26: every booking that was started ends.
C26_RequestsTerminate ==
  \A p \in Procs : (pc[p] \notin {"idle", "done"}) ~> (pc[p] = "done")

\* C27: bookSeat fails with 'Seat is not available' on a seat that is not
\* in the available list of its pool row, releaseSeat fails with 'Seat is
\* not currently booked' on a seat that is not in the booked list, either
\* fails with 'Seat class not found for this flight' when the flight has no
\* row for the class, and a call that fails leaves every pool row as it was.
C27_SeatMoveErrors ==
  [][\A p \in Procs :
       LET k == <<req[p].flight_id, req[p].class>>
           x == req[p].seat_number
       IN  /\ (req[p].op = "bookSeat" /\ pc[p] = "bs_lock" /\ pc'[p] # pc[p])
              => /\ ~pools[k].exists
                    => pc'[p] = "done" /\ result'[p] = ErrClassNotFound /\ pools' = pools
                 /\ (pools[k].exists /\ x \notin Range(pools[k].available))
                    => pc'[p] = "done" /\ result'[p] = ErrSeatNotAvailable /\ pools' = pools
           /\ (req[p].op = "releaseSeat" /\ pc[p] = "rs_lock" /\ pc'[p] # pc[p])
              => /\ ~pools[k].exists
                    => pc'[p] = "done" /\ result'[p] = ErrClassNotFound /\ pools' = pools
                 /\ (pools[k].exists /\ x \notin Range(pools[k].booked))
                    => pc'[p] = "done" /\ result'[p] = ErrSeatNotBooked /\ pools' = pools
           /\ (req[p].op \in {"bookSeat", "releaseSeat"} /\ pc'[p] = "done"
               /\ pc[p] # "done" /\ result'[p] # Ok)
              => pools' = pools]_vars

\* C27 witness: a bookSeat of the seat that was already booked and a
\* releaseSeat on the flight without pool rows have both failed, and the
\* booked seat is still booked
C27_Witness ==
  \E p, q \in Procs :
    /\ req[p].op = "bookSeat" /\ req[p].seat_number = <<3, 1>> /\ req[p].class = "economy"
    /\ req[p].flight_id = MainFlight
    /\ pc[p] = "done" /\ result[p] = ErrSeatNotAvailable
    /\ req[q].op = "releaseSeat" /\ req[q].flight_id # MainFlight
    /\ pc[q] = "done" /\ result[q] = ErrClassNotFound
    /\ pools[<<MainFlight, "economy">>].booked = <<<<3, 1>>>>

\* C28: the price a booking without a price is about to store, once its
\* checks have passed and its seat is booked, is base_price times the
\* multiplier column of the flight for the class of the ticket.
C28_ModelComputedPrice ==
  \A p \in Procs :
    (req[p].op = "createTicket" /\ req[p].body_price = NoPrice /\ pc[p] = "ct_insert")
    => req[p].price = StoredPrice(req[p].flight_id, req[p].class)

\* the rows that carry a code of class c on flight f
RowsOf(f, c) == {s[1] : s \in Range(pools[<<f, c>>].available)}
ClassOrder == <<"first", "business", "woman_only", "economy">>

\* C29: the codes generated for a flight are pairwise distinct, within each
\* class list and across the four lists, also as the strings the code writes;
\* the rows of the classes follow each other in the order first, business,
\* woman_only, economy, each non-empty class starting on the row after the
\* last row used before it, the first one on row 1.
C29_DistinctSeatCodes ==
  \A f \in Flights :
    (HasPools(f) /\ ~HasBookings(f))
    => LET len(c) == Len(pools[<<f, c>>].available)
           total == len("first") + len("business") + len("woman_only") + len("economy")
           before(i) == UNION {RowsOf(f, ClassOrder[j]) : j \in 1..(i - 1)}
           last(S) == IF S = {} THEN 0 ELSE CHOOSE r \in S : \A q \in S : q <= r
           first(S) == CHOOSE r \in S : \A q \in S : r <= q
       IN  /\ Cardinality(AllCodes(f)) = total
           /\ Cardinality({SeatCode(s) : s \in AllCodes(f)}) = total
           /\ \A i \in 1..4 :
                LET rows == RowsOf(f, ClassOrder[i])
                IN  rows # {} => /\ first(rows) = last(before(i)) + 1
                                 /\ rows = first(rows)..last(rows)

\* C29 witness: a custom distribution of 54 business and 125 economy seats
\* was stored by a reconfiguration of a 180-seat aircraft
C29_Witness ==
  /\ aircraft.capacity = 180
  /\ \E p \in Procs : /\ req[p].op = "reconfigureFlightSeats"
                      /\ pc[p] = "done" /\ result[p] = Ok
  /\ Len(pools[<<MainFlight, "business">>].available) = 54
  /\ Len(pools[<<MainFlight, "economy">>].available) = 125
  /\ Cardinality({SeatCode(s) : s \in AllCodes(MainFlight)}) = 179

\* C30: once a flight is canceled, no step of a booking on that flight
\* moves a seat or inserts a ticket, and a booking that ends then has failed.
C30_NoTicketAfterCancel ==
  [][\A p \in Procs :
       (/\ req[p].op = "bookTicket"
        /\ pc[p] # "done"
        /\ flights[req[p].flight_id].status = "canceled"
        /\ pc'[p] # pc[p])
       => /\ pools' = pools
          /\ tickets' = tickets
          /\ pc'[p] = "done" => result'[p] # Ok]_vars

====
